---- MODULE Spec2Model ----
(***************************************************************************)
(* Backend AI Mentor: the message segmentation/rendering pipeline          *)
(* (components/ChatMessage.tsx), the diagram viewport (DiagramModal), the  *)
(* transcript reconciler (App.tsx) and the autoscroll policy               *)
(* (components/ChatHistory, second half of src/components/ChatInput.tsx). *)
(*                                                                         *)
(* Texts are sequences of one-character strings.  Floating-point numbers   *)
(* of the viewport are fixed-point integers (see the viewport section).    *)
(***************************************************************************)
EXTENDS Integers, Sequences, FiniteSets, TLC

----------------------------------------------------------------------------
(* Text helpers *)

\* the backtick character (a backquote cannot be written in a TLA+ string)
BT == "BQ"
NL == "\n"
SP == " "

\* The characters the texts of the model are made of.
WordChars == {"M", "e", "r", "m", "a", "i", "d", "j", "s", "b", "c"}
SpaceChars == {SP, NL}

\* \w of the regular expressions: [A-Za-z0-9_]
IsWord(c) == c \in WordChars

\* String.prototype.toLowerCase, on the model's characters
LowerChar(c) == IF c = "M" THEN "m" ELSE c

ToLowerCase(s) == [i \in 1..Len(s) |-> LowerChar(s[i])]

\* String.prototype.trim
Trim(s) ==
  LET keep == {i \in 1..Len(s) : s[i] \notin SpaceChars}
  IN  IF keep = {} THEN <<>>
      ELSE LET lo == CHOOSE i \in keep : \A j \in keep : i <= j
               hi == CHOOSE i \in keep : \A j \in keep : j <= i
           IN  SubSeq(s, lo, hi)

RECURSIVE Flatten(_)
Flatten(ss) == IF ss = <<>> THEN <<>> ELSE Head(ss) \o Flatten(Tail(ss))

Last(s) == s[Len(s)]

MERMAID == <<"m", "e", "r", "m", "a", "i", "d">>

----------------------------------------------------------------------------
(* Segmenter: FormattedContent, ChatMessage.tsx 424-458 *)

\* three backticks at position i of s
IsFenceAt(s, i) ==
  /\ i >= 1 /\ i + 2 <= Len(s)
  /\ s[i] = BT /\ s[i + 1] = BT /\ s[i + 2] = BT

\* A greedy quantifier in place of the lazy one: the farthest closing run
FenceMatchEndGreedy(s, i) ==
  IF ~IsFenceAt(s, i) THEN 0
  ELSE LET closes == {j \in (i + 3)..(Len(s) - 2) : IsFenceAt(s, j)}
       IN  IF closes = {} THEN 0
           ELSE (CHOOSE j \in closes : \A k \in closes : k <= j) + 2

\* The match of /```[\s\S]*?```/ that starts at position i, as the position of
\* its last character: the lazy quantifier takes the nearest closing run.
\* 0 when the pattern does not match at i.
FenceMatchEnd(s, i) ==
  IF ~IsFenceAt(s, i) THEN 0
  ELSE LET closes == {j \in (i + 3)..(Len(s) - 2) : IsFenceAt(s, j)}
       IN  IF closes = {} THEN 0
           ELSE (CHOOSE j \in closes : \A k \in closes : j <= k) + 2

\* A search that takes the rightmost match at or after position from
NextFenceMatchRightmost(s, from) ==
  LET starts == {i \in from..Len(s) : FenceMatchEnd(s, i) # 0}
  IN  IF starts = {} THEN <<0, 0>>
      ELSE LET i == CHOOSE i \in starts : \A k \in starts : k <= i
           IN  <<i, FenceMatchEnd(s, i)>>

\* The leftmost match at or after position from: <<start, end>>, or <<0, 0>>.
NextFenceMatch(s, from) ==
  LET starts == {i \in from..Len(s) : FenceMatchEnd(s, i) # 0}
  IN  IF starts = {} THEN <<0, 0>>
      ELSE LET i == CHOOSE i \in starts : \A k \in starts : i <= k
           IN  <<i, FenceMatchEnd(s, i)>>

\* content.split(/(```[\s\S]*?```)/g): the text between matches and, because
\* the pattern is one capturing group, each match itself
RECURSIVE SplitFrom(_, _)
SplitFrom(s, from) ==
  LET m == NextFenceMatch(s, from)
  IN  IF m[1] = 0 THEN <<SubSeq(s, from, Len(s))>>
      ELSE <<SubSeq(s, from, m[1] - 1), SubSeq(s, m[1], m[2])>>
             \o SplitFrom(s, m[2] + 1)

\* The same split with a pattern that has no capturing group: the matches are
\* not kept
RECURSIVE SplitFromDroppingMatches(_, _)
SplitFromDroppingMatches(s, from) ==
  LET m == NextFenceMatch(s, from)
  IN  IF m[1] = 0 THEN <<SubSeq(s, from, Len(s))>>
      ELSE <<SubSeq(s, from, m[1] - 1)>> \o SplitFromDroppingMatches(s, m[2] + 1)

SplitDroppingMatches(s) == SplitFromDroppingMatches(s, 1)

Split(s) == SplitFrom(s, 1)

\* A filter that drops only the empty parts
RECURSIVE FilterPartsKeepingBlank(_)
FilterPartsKeepingBlank(parts) ==
  IF parts = <<>> THEN <<>>
  ELSE IF Head(parts) = <<>> THEN FilterPartsKeepingBlank(Tail(parts))
       ELSE <<Head(parts)>> \o FilterPartsKeepingBlank(Tail(parts))

\* parts.filter(part => part?.trim())
RECURSIVE FilterParts(_)
FilterParts(parts) ==
  IF parts = <<>> THEN <<>>
  ELSE IF Trim(Head(parts)) = <<>> THEN FilterParts(Tail(parts))
       ELSE <<Head(parts)>> \o FilterParts(Tail(parts))

\* part.match(/^```(\w*)\n?([\s\S]*?)```$/): <<TRUE, language, code>> or
\* <<FALSE, <<>>, <<>>>>
CodeBlockMatch(part) ==
  IF Len(part) >= 6 /\ IsFenceAt(part, 1) /\ IsFenceAt(part, Len(part) - 2)
  THEN LET inner == SubSeq(part, 4, Len(part) - 3)
           nonword == {i \in 1..Len(inner) : ~IsWord(inner[i])}
           wlen == IF nonword = {} THEN Len(inner)
                   ELSE (CHOOSE i \in nonword : \A k \in nonword : i <= k) - 1
           rest == SubSeq(inner, wlen + 1, Len(inner))
           code == IF rest # <<>> /\ Head(rest) = NL THEN Tail(rest) ELSE rest
       IN  <<TRUE, SubSeq(inner, 1, wlen), code>>
  ELSE <<FALSE, <<>>, <<>>>>

\* The comparison without toLowerCase
IsMermaidTagExact(language) == language = MERMAID

\* language.toLowerCase() === 'mermaid'
IsMermaidTag(language) == ToLowerCase(language) = MERMAID

\* The element rendered for one part whose match is m: a MermaidDiagram
\* (chart), a CodeBlock (language, code) or a prose div (the markdown source,
\* trimmed).
SegmentOfMatch(part, m) ==
  [kind |-> IF ~m[1] THEN "Prose"
            ELSE IF IsMermaidTag(m[2]) THEN "Diagram" ELSE "Code",
   language |-> m[2],
   payload |-> Trim(IF m[1] THEN m[3] ELSE part),
   part |-> part]

SegmentOf(part) == SegmentOfMatch(part, CodeBlockMatch(part))

\* The children of FormattedContent, in order; the index is the React key.
FormattedContent(content) ==
  LET kept == FilterParts(Split(content))
  IN  [k \in 1..Len(kept) |-> SegmentOf(kept[k])]

----------------------------------------------------------------------------
(* Bounds of the model *)

\* submissions in one behaviour
MaxTurns == 2
\* deltas of one reply
MaxDeltas == 3
\* wheel events handled in one behaviour of SpecZoom, and of SpecView
MaxWheel == 26
MaxViewWheel == 3
\* pointer moves in one behaviour
MaxMoves == 1
MaxPanMoves == 3
MaxPanWheel == 1
\* timeouts of resetTransform pending at once
MaxResetTimers == 1
\* requestAnimationFrame callbacks queued at once
MaxRafQueued == 2
\* FileReader reads in flight at once
MaxReads == 1
\* the size limits of the composer (ChatInput.tsx 15-17)
MAX_FILE_SIZE_MB == 4
MAX_TOTAL_FOLDER_SIZE_MB == 10
MAX_INDIVIDUAL_FILE_IN_FOLDER_KB == 100
\* files saved in one behaviour
MaxDownloads == 1
\* continuations of the copy buttons that have not run yet
MaxCopyTasks == 2
\* deltas of the reply of SpecModal
MaxModalDeltas == 2
\* pixels a smooth scroll moves in one frame
FrameStep == 40

VARIABLES
  \* App (App.tsx 28-32)
  language, messages, isLoading, error,
  \* handleSendMessage in flight: where it is suspended, and its local
  pc, modelResponse,
  \* the deltas the transport has yielded for the reply in flight, in arrival
  \* order, and the number of submissions so far (history, not program state)
  chunks, turns,
  \* ChatHistory (ChatInput.tsx 298-301) and its scroll container
  shouldAutoScroll, showScrollButton, scrollTop, maxTop, anim, scrollTimer,
  scrollEvt,
  \* history: what the last run of the scrolling effect did, the last manual
  \* scroll of the user since the last submission, and whether the view was
  \* at the bottom at that submission
  lastEffect, manual, bottomAtSubmit,
  \* the elements last rendered for each message: the children of its
  \* FormattedContent (none for a user message)
  rendered,
  \* MermaidDiagram instances by React key, and their renderDiagram calls
  diagrams, tasks,
  \* DiagramModal of the diagram whose modal is open (ChatMessage.tsx 19-229):
  \* transformRef.current, the style of the content element, the number of
  \* requestAnimationFrame callbacks queued, inThrottle of the two throttled
  \* handlers, the closure's startPoint and startTransform, pending timeouts
  \* of resetTransform, the registered event listeners, the styles of
  \* document.body and the cursor style of the viewport element
  transform, contentStyle, rafQueued, wheelThrottle, moveThrottle, pan,
  resetTimers, listeners, bodyStyle, viewportCursor,
  \* the pointer (clientX, clientY)
  pointer,
  \* history: wheel events handled and pointer moves so far, and the last
  \* handled wheel event when no other input followed it
  wheels, moves, trail,
  \* the composer (ChatInput.tsx 52-55): the typed text, the pending file
  \* attachment, the data URLs of the FileReader reads in flight, the pending
  \* folder, the error line, and the folders whose files are being read
  input, fileData, reading, folderData, inputError, folderReading,
  \* the text on the system clipboard, and the CodeBlock instances (by React
  \* key) whose copied state is true
  clipboard, codeCopied,
  \* history: whether a mermaid.render has settled after the instance that
  \* called it had unmounted
  discarded,
  \* history: whether a modal has closed or unmounted during a drag
  closedInDrag,
  \* the files the browser has saved, in order
  downloaded,
  \* the continuations of the copy buttons that have not run yet: the then
  \* callback of writeText and the timeout it starts, with whether their
  \* instance is still mounted
  copyTasks

appVars == <<language, messages, isLoading, error, pc, modelResponse, chunks, turns>>
scrollVars == <<shouldAutoScroll, showScrollButton, scrollTop, maxTop, anim,
                scrollTimer, scrollEvt, lastEffect, manual, bottomAtSubmit>>
diagVars == <<rendered, diagrams, tasks>>
\* what a closing modal leaves alone
viewKept == <<transform, pointer, wheels, moves>>
\* what a closing modal resets, but for the body styles
viewClosure == <<contentStyle, rafQueued, wheelThrottle, moveThrottle, pan,
                 resetTimers, listeners, viewportCursor, trail>>
viewVars == <<viewKept, viewClosure, bodyStyle>>
composerVars == <<input, fileData, reading, folderData, inputError, folderReading>>
\* what the composer does not touch, apart from App
otherSide == <<clipboard, codeCopied, discarded, closedInDrag, downloaded,
               copyTasks>>
\* what no handler outside the composer, the copy buttons and renderDiagram
\* touches
sideVars == <<composerVars, otherSide>>
vars == <<appVars, scrollVars, diagVars, viewVars, sideVars>>

----------------------------------------------------------------------------
(* Messages (unnamed/part_000 3-24) *)

USER == "user"
MODEL == "model"

\* an optional value is a sequence of length 0 or 1
None == <<>>
Some(x) == <<x>>

UserMessage(prompt, attachment) ==
  [role |-> USER, content |-> prompt, attachment |-> attachment]
ModelMessage(text) == [role |-> MODEL, content |-> text, attachment |-> None]

\* t('initialGreeting', language), unnamed/part_000 31, 41
Greeting(lang) == IF lang = "zh" THEN <<"n", "h">> ELSE <<"H", "i">>

\* A data URL is a sequence of tokens.  FileReader.readAsDataURL gives
\* data:<type>;base64,<payload>, and "data:" alone for an empty file.
GoodDataUrl == <<"data:", "image/png", ";base64,", "QUJD">>
EmptyFileDataUrl == <<"data:">>

\* fileToPart (App.tsx 9-21): dataUrl.match(/^data:(.*);base64,(.*)$/);
\* <<TRUE, mimeType, data>>, or <<FALSE, .. >> where the code throws
FileToPart(dataUrl) ==
  LET marks == {i \in 2..Len(dataUrl) : dataUrl[i] = ";base64,"}
  IN  IF dataUrl # <<>> /\ dataUrl[1] = "data:" /\ marks # {}
           /\ \A i \in 1..Len(dataUrl) : dataUrl[i] # NL
      THEN LET i == CHOOSE i \in marks : \A k \in marks : k <= i
           IN  <<TRUE, SubSeq(dataUrl, 2, i - 1), SubSeq(dataUrl, i + 1, Len(dataUrl))>>
      ELSE <<FALSE, <<>>, <<>>>>

\* App.tsx 59-101: building the request throws when fileToPart throws, for an
\* attachment of the history (messages.slice(1)) or of the new message
BuildContentsThrows(msgs, attachment) ==
  \/ \E i \in 2..Len(msgs) :
       /\ msgs[i].attachment # None
       /\ ~FileToPart(msgs[i].attachment[1].dataUrl)[1]
  \/ attachment # None /\ ~FileToPart(attachment[1].dataUrl)[1]

\* App.tsx 126-136
ErrorText(errorMessage) == <<"Error:", errorMessage>>
\* A reply that leaves the detail out
ErrorReplyWithoutDetail(errorMessage) ==
  [role |-> MODEL, content |-> <<"Sorry:">>, attachment |-> None]
ErrorReply(errorMessage) == ModelMessage(<<"Sorry:", errorMessage>>)

\* The delta put in front of the accumulated text
PrependDelta(response, text) == text \o response

\* modelResponse += chunk.text (App.tsx 117)
AppendDelta(response, text) == response \o text

\* An update that returns the new message alone
ReplaceWhole(msgs, m) == <<m>>

\* App.tsx 119-121: a copy of the array with its last element replaced
ReplaceLast(msgs, m) ==
  IF msgs = <<>> THEN msgs ELSE [msgs EXCEPT ![Len(msgs)] = m]

----------------------------------------------------------------------------
(* ChatHistory: the scrolling effect and the scroll container             *)
(* (ChatInput.tsx 297-373).  scrollTop and maxTop = scrollHeight -         *)
(* clientHeight are in pixels; anim is the target of a smooth scroll in    *)
(* progress, -1 when there is none.                                        *)

\* ChatInput.tsx 330
scrollThreshold == 50

NoAnim == -1

\* scrollHeight - scrollTop - clientHeight <= scrollThreshold (ChatInput.tsx 331)
IsAtBottom(top, max) == max - top <= scrollThreshold

\* endOfMessagesRef.current?.scrollIntoView({ behavior: 'smooth' }): a smooth
\* scroll towards the end of the content, which is at newMax now; nothing
\* moves when the view is there already
ScrollIntoViewTarget(top, newMax) == IF top = newMax THEN NoAnim ELSE newMax

\* The effect on [messages] (ChatInput.tsx 304-323) after a render with the
\* messages msgs, the content having grown to newMax and the view being at top.
ScrollEffect(msgs, top, newMax) ==
  IF msgs # <<>> /\ Last(msgs).role = USER
  THEN /\ shouldAutoScroll' = TRUE
       /\ scrollTimer' = TRUE
       /\ lastEffect' = "timer"
       /\ UNCHANGED anim
  ELSE IF shouldAutoScroll
       THEN /\ anim' = ScrollIntoViewTarget(top, newMax)
            /\ lastEffect' = "scroll"
            /\ UNCHANGED <<shouldAutoScroll, scrollTimer>>
       ELSE /\ lastEffect' = "skip"
            /\ UNCHANGED <<shouldAutoScroll, scrollTimer, anim>>

\* A render that appends g pixels of content below the view and runs the effect
GrowAndScroll(msgs, g) ==
  /\ maxTop' = maxTop + g
  /\ ScrollEffect(msgs, scrollTop, maxTop + g)
  /\ UNCHANGED <<showScrollButton, scrollTop, scrollEvt, manual, bottomAtSubmit>>

\* handleScroll (ChatInput.tsx 326-335), run for a dispatched scroll event
HandleScroll ==
  /\ scrollEvt
  /\ shouldAutoScroll' = IsAtBottom(scrollTop, maxTop)
  /\ showScrollButton' = ~IsAtBottom(scrollTop, maxTop)
  /\ scrollEvt' = FALSE
  /\ UNCHANGED <<scrollTop, maxTop, anim, scrollTimer, lastEffect, manual,
                 bottomAtSubmit>>
  /\ UNCHANGED <<sideVars, appVars, diagVars, viewVars>>

\* The timeout of the user-message case (ChatInput.tsx 312-314)
ScrollTimerFire ==
  /\ scrollTimer
  /\ scrollTimer' = FALSE
  /\ anim' = ScrollIntoViewTarget(scrollTop, maxTop)
  /\ UNCHANGED <<shouldAutoScroll, showScrollButton, scrollTop, maxTop,
                 scrollEvt, lastEffect, manual, bottomAtSubmit>>
  /\ UNCHANGED <<sideVars, appVars, diagVars, viewVars>>

\* handleScrollToBottom (ChatInput.tsx 337-339); the button is rendered only
\* while showScrollButton (363)
HandleScrollToBottom ==
  /\ showScrollButton
  /\ anim' = ScrollIntoViewTarget(scrollTop, maxTop)
  /\ manual' = "button"
  /\ UNCHANGED <<shouldAutoScroll, showScrollButton, scrollTop, maxTop,
                 scrollTimer, scrollEvt, lastEffect, bottomAtSubmit>>
  /\ UNCHANGED <<sideVars, appVars, diagVars, viewVars>>

\* The browser: one frame of a smooth scroll in progress moves the view
\* FrameStep pixels towards the target, or all the way to it, and queues a
\* scroll event.
SmoothScrollFrame ==
  /\ anim # NoAnim
  /\ \E pos \in {IF scrollTop + FrameStep < anim THEN scrollTop + FrameStep ELSE anim,
                  anim} :
       /\ pos # scrollTop
       /\ scrollTop' = pos
       /\ anim' = (IF pos = anim THEN NoAnim ELSE anim)
  /\ scrollEvt' = TRUE
  /\ UNCHANGED <<shouldAutoScroll, showScrollButton, maxTop, scrollTimer,
                 lastEffect, manual, bottomAtSubmit>>
  /\ UNCHANGED <<sideVars, appVars, diagVars, viewVars>>

\* The user scrolls the transcript to pos (wheel, keys or scrollbar), which
\* ends a smooth scroll in progress and queues a scroll event.
UserScroll(pos) ==
  /\ pos \in 0..maxTop /\ pos # scrollTop
  /\ scrollTop' = pos
  /\ anim' = NoAnim
  /\ scrollEvt' = TRUE
  /\ manual' = (IF IsAtBottom(pos, maxTop) THEN "near" ELSE "up")
  /\ UNCHANGED <<shouldAutoScroll, showScrollButton, maxTop, scrollTimer,
                 lastEffect, bottomAtSubmit>>
  /\ UNCHANGED <<sideVars, appVars, diagVars, viewVars>>

----------------------------------------------------------------------------
(* DiagramModal: the viewport (ChatMessage.tsx 19-229).  The numbers of    *)
(* the transform are fixed-point: a scale is in hundredths (1 is 100), a   *)
(* translation in whole pixels; an expression is computed exactly and      *)
(* rounded to the grid when it is stored.                                  *)

\* scale: 1 (ChatMessage.tsx 24, 59, 80)
IdentityScale == 100
\* Math.min(Math.max(0.2, newScale), 10) (ChatMessage.tsx 103)
MinScale == 20
MaxScale == 1000
\* scaleRatio = 1.1 (ChatMessage.tsx 101), as a fraction
ScaleRatioNum == 11
ScaleRatioDen == 10

Min(a, b) == IF a <= b THEN a ELSE b
Max(a, b) == IF a >= b THEN a ELSE b
Abs(a) == IF a >= 0 THEN a ELSE 0 - a

\* n / d rounded to the nearest integer (d > 0)
Round(n, d) == (2 * n + d) \div (2 * d)

IdentityTransform == [scale |-> IdentityScale, x |-> 0, y |-> 0]

\* viewport.getBoundingClientRect() (ChatMessage.tsx 107)
ViewportRect == [left |-> 8, top |-> 4]

\* The zoom-out step as a multiplication by 0.9
NewScaleAsymmetric(oldScale, deltaY) ==
  IF deltaY < 0 THEN Round(oldScale * ScaleRatioNum, ScaleRatioDen)
  ELSE Round(oldScale * 9, 10)

\* ChatMessage.tsx 102
NewScale(oldScale, deltaY) ==
  IF deltaY < 0 THEN Round(oldScale * ScaleRatioNum, ScaleRatioDen)
  ELSE Round(oldScale * ScaleRatioDen, ScaleRatioNum)

\* The clamp without its upper limit
ClampedScaleNoCeiling(newScale) == Max(MinScale, newScale)

\* ChatMessage.tsx 103
ClampedScale(newScale) == Min(Max(MinScale, newScale), MaxScale)

\* The shift computed with the ratio of the scales inverted
AnchorShiftInverted(mouse, translate, oldScale, clampedScale) ==
  Round((mouse - translate) * (clampedScale - oldScale), clampedScale)

\* dx, dy of handleWheel (ChatMessage.tsx 111-112):
\* (mouse - translate) * (1 - clampedScale / oldScale)
AnchorShift(mouse, translate, oldScale, clampedScale) ==
  Round((mouse - translate) * (oldScale - clampedScale), oldScale)

\* A wheel step without the early return, whose shift uses the scale before
\* the clamp
ZoomedTransformDrifting(t, deltaY, mouseX, mouseY) ==
  LET newScale == NewScale(t.scale, deltaY)
  IN  [scale |-> ClampedScale(newScale),
       x |-> t.x + AnchorShift(mouseX, t.x, t.scale, newScale),
       y |-> t.y + AnchorShift(mouseY, t.y, t.scale, newScale)]

\* transformRef.current after handleWheel (ChatMessage.tsx 100-116) for a
\* wheel event with deltaY at (mouseX, mouseY) of the viewport
ZoomedTransform(t, deltaY, mouseX, mouseY) ==
  LET clampedScale == ClampedScale(NewScale(t.scale, deltaY))
  IN  IF clampedScale = t.scale THEN t
      ELSE [scale |-> clampedScale,
            x |-> t.x + AnchorShift(mouseX, t.x, t.scale, clampedScale),
            y |-> t.y + AnchorShift(mouseY, t.y, t.scale, clampedScale)]

\* A reset that forgets the scale
ResetTransformKeepingScale(t, hasContent) ==
  IF hasContent THEN [t EXCEPT !.x = 0, !.y = 0] ELSE t

\* transformRef.current after resetTransform (ChatMessage.tsx 56-59)
ResetTransformRef(t, hasContent) == IF hasContent THEN IdentityTransform ELSE t

\* the style a content element starts with, and the locals of a fresh closure
\* of the main effect (ChatMessage.tsx 128-129)
FreshContentStyle == [transform |-> IdentityTransform, transition |-> ""]
FreshPan == [startPoint |-> <<0, 0>>, startTransform |-> <<0, 0>>]

\* the diagrams whose modal is open
OpenModals == {key \in DOMAIN diagrams : diagrams[key].isModalOpen}

\* A teardown whose main cleanup leaves the listeners on the document
ModalTeardownKeepingDrag ==
  /\ listeners' = listeners \cap {"mousemove", "mouseup"}
  /\ bodyStyle' = [overflow |-> "auto", userSelect |-> "auto"]
  /\ contentStyle' = FreshContentStyle
  /\ rafQueued' = 0
  /\ wheelThrottle' = FALSE
  /\ moveThrottle' = FALSE
  /\ pan' = FreshPan
  /\ resetTimers' = 0
  /\ viewportCursor' = "grab"
  /\ trail' = None
  /\ closedInDrag' = (closedInDrag \/ "mouseup" \in listeners)
  /\ UNCHANGED viewKept

\* The cleanups of the three effects when isOpen becomes false or the modal
\* unmounts (ChatMessage.tsx 35-37, 50-52, 173-179); the content element, the
\* timers and the frame callbacks of the closed modal act on nothing any more
ModalTeardown ==
  /\ listeners' = {}
  /\ bodyStyle' = [overflow |-> "auto", userSelect |-> "auto"]
  /\ contentStyle' = FreshContentStyle
  /\ rafQueued' = 0
  /\ wheelThrottle' = FALSE
  /\ moveThrottle' = FALSE
  /\ pan' = FreshPan
  /\ resetTimers' = 0
  /\ viewportCursor' = "grab"
  /\ trail' = None
  /\ closedInDrag' = (closedInDrag \/ "mouseup" \in listeners)
  /\ UNCHANGED viewKept

----------------------------------------------------------------------------
(* MermaidDiagram (ChatMessage.tsx 232-365).  An instance is identified by *)
(* its React key <<message index, part index>> (ChatInput.tsx 349,         *)
(* ChatMessage.tsx 438); svg is a sequence of markup tokens.               *)

\* the values of the svg state
NoSvg == <<>>
SvgOf(chart) == <<"<svg">> \o chart
RawMarkup == <<"<p>">>
\* A panel that does not show the message of the error
ErrorPanelWithoutMessage(errorMessage) == <<"<div>", "Diagram Error:">>
\* setSvg of the catch block (ChatMessage.tsx 269)
ErrorPanel(errorMessage) == <<"<div>", "Diagram Error:", errorMessage>>

\* svg.trim().startsWith('<svg') (ChatMessage.tsx 305)
IsRenderSuccess(svg) == Trim(svg) # <<>> /\ Head(Trim(svg)) = "<svg"

\* useState of a fresh instance (ChatMessage.tsx 233-236)
MountDiagram(chart) ==
  [chart |-> chart, svg |-> NoSvg, isLoading |-> TRUE, isModalOpen |-> FALSE,
   copied |-> FALSE]

\* ChatMessageComponent (ChatMessage.tsx 494-499, 513-551): only a model
\* message renders its content through FormattedContent
RenderMessage(m) == IF m.role = MODEL THEN FormattedContent(m.content) ELSE <<>>

Render(msgs) == [i \in 1..Len(msgs) |-> RenderMessage(msgs[i])]

\* The MermaidDiagram elements among the rendered elements r
DiagramKeys(r) ==
  UNION {{<<i, k>> : k \in {k \in 1..Len(r[i]) : r[i][k].kind = "Diagram"}} :
           i \in 1..Len(r)}

\* The CodeBlock elements among the rendered elements r
CodeKeys(r) ==
  UNION {{<<i, k>> : k \in {k \in 1..Len(r[i]) : r[i][k].kind = "Code"}} :
           i \in 1..Len(r)}

\* React's reconciliation after the elements r were rendered: an instance whose
\* key still holds a MermaidDiagram is kept, and its effect on [chart] runs
\* again when the chart changed (cleanup, then setIsLoading(true), 238-240,
\* 279-281); other keys mount fresh instances; instances whose key is gone
\* unmount.  A task is one call of renderDiagram with the isMounted of its
\* closure as alive; phase "start" is an effect that has not run yet.  React
\* runs the effects of the last render before the next one: an effect still
\* to run calls renderDiagram, and the cleanup then clears its isMounted.
\* Each instance holds a DiagramModal (357-361): its effect on [isOpen] sets
\* the overflow of the body to auto when it mounts closed and when it
\* unmounts (29-38), and an open modal that unmounts is torn down.  A
\* CodeBlock instance (377-378) is kept while its key holds a CodeBlock.
Reconcile(r) ==
  LET newKeys == DiagramKeys(r)
      kept == {key \in newKeys \cap DOMAIN diagrams :
                 diagrams[key].chart = r[key[1]][key[2]].payload}
      rerun == (newKeys \cap DOMAIN diagrams) \ kept
      fresh == newKeys \ DOMAIN diagrams
      gone == (DOMAIN diagrams) \ newKeys
  IN  /\ diagrams' =
           [key \in newKeys |->
              IF key \in kept THEN diagrams[key]
              ELSE IF key \in rerun
                   THEN [diagrams[key] EXCEPT !.chart = r[key[1]][key[2]].payload,
                                              !.isLoading = TRUE]
                   ELSE MountDiagram(r[key[1]][key[2]].payload)]
      /\ tasks' =
           {t \in tasks : t.key \in kept \/ ~t.alive}
           \cup {[t EXCEPT !.alive = FALSE, !.phase = "await"] :
                   t \in {u \in tasks : /\ u.alive
                                          /\ u.key \in rerun \cup gone
                                          /\ \/ u.phase = "await"
                                             \/ diagrams[u.key].chart # <<>>}}
           \cup {[key |-> key, alive |-> TRUE, phase |-> "start"] :
                   key \in rerun \cup fresh}
      /\ IF gone \cap OpenModals # {}
         THEN ModalTeardown
         ELSE /\ bodyStyle' = IF fresh \cup gone # {}
                              THEN [bodyStyle EXCEPT !.overflow = "auto"]
                              ELSE bodyStyle
              /\ UNCHANGED <<viewKept, viewClosure, closedInDrag>>
      /\ codeCopied' = codeCopied \cap CodeKeys(r)
      /\ copyTasks' =
           {IF \/ t.kind = "diagram" /\ t.key \in newKeys \cap DOMAIN diagrams
               \/ t.kind = "code" /\ t.key \in CodeKeys(r)
            THEN t ELSE [t EXCEPT !.alive = FALSE] : t \in copyTasks}

\* The effect of an instance runs (ChatMessage.tsx 238-277): renderDiagram
\* awaits mermaid.render when there is a chart, and otherwise goes straight to
\* its finally block
RenderDiagram(key) ==
  /\ [key |-> key, alive |-> TRUE, phase |-> "start"] \in tasks
  /\ LET t == [key |-> key, alive |-> TRUE, phase |-> "start"]
     IN  IF diagrams[key].chart # <<>>
         THEN /\ tasks' = (tasks \ {t}) \cup {[t EXCEPT !.phase = "await"]}
              /\ UNCHANGED diagrams
         ELSE /\ tasks' = tasks \ {t}
              /\ diagrams' = [diagrams EXCEPT ![key].isLoading = FALSE]
  /\ UNCHANGED <<sideVars, appVars, scrollVars, rendered, viewVars>>

\* The state after a settle whose finally block did not run
SettledDiagramWithoutFinally(d, outcome) ==
  [d EXCEPT !.svg = (IF outcome = "svg" THEN SvgOf(d.chart)
                     ELSE IF outcome = "nosvg" THEN RawMarkup
                     ELSE ErrorPanel("parse"))]

\* What an instance's state becomes when mermaid.render settles with outcome
\* (ChatMessage.tsx 246-275): "svg" markup with an svg element, "nosvg" markup
\* without one, "error" a rejection
SettledDiagram(d, outcome) ==
  [d EXCEPT !.svg = (IF outcome = "svg" THEN SvgOf(d.chart)
                     ELSE IF outcome = "nosvg" THEN RawMarkup
                     ELSE ErrorPanel("parse")),
            !.isLoading = FALSE]

\* The settle without the isMounted guards: the result is written to the
\* instance that holds the key
MermaidSettlesUnguarded(t, outcome) ==
  /\ t \in tasks /\ t.phase = "await"
  /\ tasks' = tasks \ {t}
  /\ IF t.key \in DOMAIN diagrams
     THEN diagrams' = [diagrams EXCEPT ![t.key] = SettledDiagram(diagrams[t.key], outcome)]
     ELSE UNCHANGED diagrams
  /\ discarded' = (discarded \/ ~t.alive)
  /\ UNCHANGED <<composerVars, clipboard, codeCopied, closedInDrag,
                 downloaded, copyTasks>>
  /\ UNCHANGED <<appVars, scrollVars, rendered, viewVars>>

\* mermaid.render of task t settles; every write is guarded by isMounted
MermaidSettles(t, outcome) ==
  /\ t \in tasks /\ t.phase = "await"
  /\ tasks' = tasks \ {t}
  /\ IF t.alive
     THEN diagrams' = [diagrams EXCEPT ![t.key] = SettledDiagram(diagrams[t.key], outcome)]
     ELSE UNCHANGED diagrams
  /\ discarded' = (discarded \/ ~t.alive)
  /\ UNCHANGED <<composerVars, clipboard, codeCopied, closedInDrag,
                 downloaded, copyTasks>>
  /\ UNCHANGED <<appVars, scrollVars, rendered, viewVars>>

\* An open whose main effect does not initialise the position
OpenModalKeepingTransform(key) ==
  /\ key \in DOMAIN diagrams
  /\ ~diagrams[key].isLoading
  /\ IsRenderSuccess(diagrams[key].svg)
  /\ OpenModals = {}
  /\ diagrams' = [diagrams EXCEPT ![key].isModalOpen = TRUE]
  /\ bodyStyle' = [bodyStyle EXCEPT !.overflow = "hidden"]
  /\ listeners' = {"keydown", "wheel", "mousedown"}
  /\ contentStyle' = [FreshContentStyle EXCEPT !.transform = transform]
  /\ trail' = None
  /\ UNCHANGED <<transform, rafQueued, wheelThrottle, moveThrottle, pan,
                 resetTimers, viewportCursor, pointer, wheels, moves>>
  /\ UNCHANGED <<sideVars, appVars, scrollVars, rendered, tasks>>

\* An open that does not look at isRenderSuccess
OpenModalUnguarded(key) ==
  /\ key \in DOMAIN diagrams
  /\ ~diagrams[key].isLoading
  /\ OpenModals = {}
  /\ diagrams' = [diagrams EXCEPT ![key].isModalOpen = TRUE]
  /\ bodyStyle' = [bodyStyle EXCEPT !.overflow = "hidden"]
  /\ listeners' = {"keydown", "wheel", "mousedown"}
  /\ transform' = IdentityTransform
  /\ contentStyle' = FreshContentStyle
  /\ trail' = None
  /\ UNCHANGED <<rafQueued, wheelThrottle, moveThrottle, pan, resetTimers,
                 viewportCursor, pointer, wheels, moves>>
  /\ UNCHANGED <<sideVars, appVars, scrollVars, rendered, tasks>>

\* onClick of a rendered diagram and the expand button (ChatMessage.tsx 320,
\* 345), then the effects on [isOpen] (29-34, 47-49, 72-82, 170-171).  The
\* diagram is shown and the toolbar is there only when isLoading is false;
\* an open modal covers every other diagram.
OpenModal(key) ==
  /\ key \in DOMAIN diagrams
  /\ ~diagrams[key].isLoading
  /\ IsRenderSuccess(diagrams[key].svg)
  /\ OpenModals = {}
  /\ diagrams' = [diagrams EXCEPT ![key].isModalOpen = TRUE]
  /\ bodyStyle' = [bodyStyle EXCEPT !.overflow = "hidden"]
  /\ listeners' = {"keydown", "wheel", "mousedown"}
  /\ transform' = IdentityTransform
  /\ contentStyle' = FreshContentStyle
  /\ trail' = None
  /\ UNCHANGED <<rafQueued, wheelThrottle, moveThrottle, pan, resetTimers,
                 viewportCursor, pointer, wheels, moves>>
  /\ UNCHANGED <<sideVars, appVars, scrollVars, rendered, tasks>>

\* onClose: the close button, a click on the backdrop or Escape
\* (ChatMessage.tsx 43-45, 189, 205, 359)
CloseModal ==
  /\ \E key \in OpenModals :
       diagrams' = [diagrams EXCEPT ![key].isModalOpen = FALSE]
  /\ ModalTeardown
  /\ UNCHANGED <<composerVars, clipboard, codeCopied, discarded, downloaded, copyTasks>>
  /\ UNCHANGED <<appVars, scrollVars, rendered, tasks>>

\* A wheel handler that stores the new transform and requests no frame
WheelWithoutFrame(deltaY) ==
  /\ "wheel" \in listeners
  /\ ~wheelThrottle
  /\ rafQueued < MaxRafQueued
  /\ wheels' = wheels + 1
  /\ transform' = ZoomedTransform(transform, deltaY,
                                  pointer[1] - ViewportRect.left,
                                  pointer[2] - ViewportRect.top)
  /\ rafQueued' = rafQueued
  /\ wheelThrottle' = TRUE
  /\ trail' = Some([deltaY |-> deltaY, before |-> transform.scale])
  /\ UNCHANGED <<contentStyle, moveThrottle, pan, resetTimers, listeners,
                 bodyStyle, viewportCursor, pointer, moves>>
  /\ UNCHANGED <<sideVars, appVars, scrollVars, diagVars>>

\* A wheel event over the viewport with the pointer where it is: throttledWheel
\* (ChatMessage.tsx 84-124).  An event that arrives while inThrottle is set is
\* dropped and changes nothing.
Wheel(deltaY) ==
  /\ "wheel" \in listeners
  /\ ~wheelThrottle
  /\ rafQueued < MaxRafQueued
  /\ wheels' = wheels + 1
  /\ transform' = ZoomedTransform(transform, deltaY,
                                  pointer[1] - ViewportRect.left,
                                  pointer[2] - ViewportRect.top)
  /\ rafQueued' = (IF transform' # transform THEN rafQueued + 1 ELSE rafQueued)
  /\ wheelThrottle' = TRUE
  /\ trail' = Some([deltaY |-> deltaY, before |-> transform.scale])
  /\ UNCHANGED <<contentStyle, moveThrottle, pan, resetTimers, listeners,
                 bodyStyle, viewportCursor, pointer, moves>>
  /\ UNCHANGED <<sideVars, appVars, scrollVars, diagVars>>

\* setTimeout(() => inThrottle = false, limit) of throttledWheel and of
\* throttledMouseMove (ChatMessage.tsx 91)
WheelThrottleExpires ==
  /\ wheelThrottle
  /\ wheelThrottle' = FALSE
  /\ UNCHANGED <<viewKept, contentStyle, rafQueued, moveThrottle, pan,
                 resetTimers, listeners, viewportCursor, trail, bodyStyle>>
  /\ UNCHANGED <<sideVars, appVars, scrollVars, diagVars>>

MoveThrottleExpires ==
  /\ moveThrottle
  /\ moveThrottle' = FALSE
  /\ UNCHANGED <<viewKept, contentStyle, rafQueued, wheelThrottle, pan,
                 resetTimers, listeners, viewportCursor, trail, bodyStyle>>
  /\ UNCHANGED <<sideVars, appVars, scrollVars, diagVars>>

\* The queued requestAnimationFrame callbacks run (ChatMessage.tsx 118-122,
\* 139-143): each writes the transform that transformRef holds now
AnimationFrame ==
  /\ rafQueued > 0
  /\ rafQueued' = 0
  /\ contentStyle' = [contentStyle EXCEPT !.transform = transform]
  /\ UNCHANGED <<viewKept, wheelThrottle, moveThrottle, pan, resetTimers,
                 listeners, viewportCursor, trail, bodyStyle>>
  /\ UNCHANGED <<sideVars, appVars, scrollVars, diagVars>>

\* handleMouseDown with the primary button (ChatMessage.tsx 155-168); any
\* other button returns at once and changes nothing
MouseDown ==
  /\ "mousedown" \in listeners
  /\ "mouseup" \notin listeners
  /\ pan' = [startPoint |-> pointer, startTransform |-> <<transform.x, transform.y>>]
  /\ viewportCursor' = "grabbing"
  /\ bodyStyle' = [bodyStyle EXCEPT !.userSelect = "none"]
  /\ listeners' = listeners \cup {"mousemove", "mouseup"}
  /\ trail' = None
  /\ UNCHANGED <<viewKept, contentStyle, rafQueued, wheelThrottle,
                 moveThrottle, resetTimers>>
  /\ UNCHANGED <<sideVars, appVars, scrollVars, diagVars>>

\* A pan that adds the displacement to the translate of the moment
PointerMoveIncremental(p) ==
  /\ p # pointer
  /\ rafQueued < MaxRafQueued
  /\ moves' = moves + 1
  /\ pointer' = p
  /\ IF "mousemove" \in listeners /\ ~moveThrottle
     THEN /\ transform' = [transform EXCEPT
                             !.x = transform.x + (p[1] - pan.startPoint[1]),
                             !.y = transform.y + (p[2] - pan.startPoint[2])]
          /\ rafQueued' = rafQueued + 1
          /\ moveThrottle' = TRUE
          /\ trail' = None
     ELSE UNCHANGED <<transform, rafQueued, moveThrottle, trail>>
  /\ UNCHANGED <<contentStyle, wheelThrottle, pan, resetTimers, listeners,
                 bodyStyle, viewportCursor, wheels>>
  /\ UNCHANGED <<sideVars, appVars, scrollVars, diagVars>>

\* The pointer moves to p; while mousemove is registered on the document,
\* throttledMouseMove runs handleMouseMove (ChatMessage.tsx 131-146)
PointerMove(p) ==
  /\ p # pointer
  /\ rafQueued < MaxRafQueued
  /\ moves' = moves + 1
  /\ pointer' = p
  /\ IF "mousemove" \in listeners /\ ~moveThrottle
     THEN /\ transform' = [transform EXCEPT
                             !.x = pan.startTransform[1] + (p[1] - pan.startPoint[1]),
                             !.y = pan.startTransform[2] + (p[2] - pan.startPoint[2])]
          /\ rafQueued' = rafQueued + 1
          /\ moveThrottle' = TRUE
          /\ trail' = None
     ELSE UNCHANGED <<transform, rafQueued, moveThrottle, trail>>
  /\ UNCHANGED <<contentStyle, wheelThrottle, pan, resetTimers, listeners,
                 bodyStyle, viewportCursor, wheels>>
  /\ UNCHANGED <<sideVars, appVars, scrollVars, diagVars>>

\* A release that leaves throttledMouseMove on the document
MouseUpKeepingMove ==
  /\ "mouseup" \in listeners
  /\ viewportCursor' = "grab"
  /\ bodyStyle' = [bodyStyle EXCEPT !.userSelect = "auto"]
  /\ listeners' = listeners \ {"mouseup"}
  /\ trail' = None
  /\ UNCHANGED <<viewKept, contentStyle, rafQueued, wheelThrottle,
                 moveThrottle, pan, resetTimers>>
  /\ UNCHANGED <<sideVars, appVars, scrollVars, diagVars>>

\* handleMouseUp (ChatMessage.tsx 148-153)
MouseUp ==
  /\ "mouseup" \in listeners
  /\ viewportCursor' = "grab"
  /\ bodyStyle' = [bodyStyle EXCEPT !.userSelect = "auto"]
  /\ listeners' = listeners \ {"mousemove", "mouseup"}
  /\ trail' = None
  /\ UNCHANGED <<viewKept, contentStyle, rafQueued, wheelThrottle,
                 moveThrottle, pan, resetTimers>>
  /\ UNCHANGED <<sideVars, appVars, scrollVars, diagVars>>

\* resetTransform(), from the reset button or a double click on the viewport
\* (ChatMessage.tsx 55-69, 197, 217); both exist only while the modal is open,
\* and then contentRef.current is the content element
ResetTransform ==
  /\ OpenModals # {}
  /\ resetTimers < MaxResetTimers
  /\ transform' = ResetTransformRef(transform, TRUE)
  /\ contentStyle' = [transform |-> IdentityTransform,
                      transition |-> "transform 300ms ease-out"]
  /\ resetTimers' = resetTimers + 1
  /\ trail' = None
  /\ UNCHANGED <<rafQueued, wheelThrottle, moveThrottle, pan, listeners,
                 bodyStyle, viewportCursor, pointer, wheels, moves>>
  /\ UNCHANGED <<sideVars, appVars, scrollVars, diagVars>>

\* The timeout of resetTransform (ChatMessage.tsx 64-68)
ResetTimeout ==
  /\ resetTimers > 0
  /\ resetTimers' = resetTimers - 1
  /\ contentStyle' = [contentStyle EXCEPT !.transition = ""]
  /\ UNCHANGED <<viewKept, rafQueued, wheelThrottle, moveThrottle, pan,
                 listeners, viewportCursor, trail, bodyStyle>>
  /\ UNCHANGED <<sideVars, appVars, scrollVars, diagVars>>

----------------------------------------------------------------------------
(* App (App.tsx 27-140).  handleSendMessage is one asynchronous call: pc is *)
(* "idle" when none is in flight, "awaitStream" while it awaits             *)
(* generateContentStream, "streaming" inside the for-await loop.           *)

\* A render with the new messages msgs, whose content is g pixels taller
Commit(msgs, g) ==
  /\ messages' = msgs
  /\ GrowAndScroll(msgs, g)
  /\ rendered' = Render(msgs)
  /\ Reconcile(rendered')

\* A handler that does not set the loading flag
HandleSendMessageWithoutLoading(prompt, attachment, g) ==
  /\ ~isLoading
  /\ turns < MaxTurns
  /\ turns' = turns + 1
  /\ manual' = "none"
  /\ bottomAtSubmit' = IsAtBottom(scrollTop, maxTop)
  /\ chunks' = <<>>
  /\ LET withUser == Append(messages, UserMessage(prompt, attachment))
     IN  IF BuildContentsThrows(messages, attachment)
         THEN /\ messages' = Append(withUser, ErrorReply("Invalid data URL"))
              /\ error' = ErrorText("Invalid data URL")
              /\ isLoading' = FALSE
              /\ pc' = "idle"
         ELSE /\ messages' = withUser
              /\ error' = None
              /\ isLoading' = FALSE
              /\ pc' = "awaitStream"
  /\ maxTop' = maxTop + g
  /\ ScrollEffect(messages', scrollTop, maxTop + g)
  /\ rendered' = Render(messages')
  /\ Reconcile(rendered')
  /\ UNCHANGED <<language, modelResponse, showScrollButton, scrollTop, scrollEvt>>
  /\ UNCHANGED <<clipboard, discarded, downloaded>>

\* performSubmit (ChatInput.tsx 179-185) calls handleSendMessage, which runs
\* to its first await (App.tsx 45-111), or through catch and finally when
\* building the request throws
HandleSendMessage(prompt, attachment, g) ==
  /\ ~isLoading
  /\ turns < MaxTurns
  /\ turns' = turns + 1
  /\ manual' = "none"
  /\ bottomAtSubmit' = IsAtBottom(scrollTop, maxTop)
  /\ chunks' = <<>>
  /\ LET withUser == Append(messages, UserMessage(prompt, attachment))
     IN  IF BuildContentsThrows(messages, attachment)
         THEN /\ messages' = Append(withUser, ErrorReply("Invalid data URL"))
              /\ error' = ErrorText("Invalid data URL")
              /\ isLoading' = FALSE
              /\ pc' = "idle"
         ELSE /\ messages' = withUser
              /\ error' = None
              /\ isLoading' = TRUE
              /\ pc' = "awaitStream"
  /\ maxTop' = maxTop + g
  /\ ScrollEffect(messages', scrollTop, maxTop + g)
  /\ rendered' = Render(messages')
  /\ Reconcile(rendered')
  /\ UNCHANGED <<language, modelResponse, showScrollButton, scrollTop, scrollEvt>>
  /\ UNCHANGED <<clipboard, discarded, downloaded>>

\* performSubmit (ChatInput.tsx 179-185) with the composer holding input,
\* fileData and folderData: handleSendMessage gets the trimmed text and the
\* attachment, and the composer is cleared by setInput('') and
\* resetAttachments.  The folder only adds a chip to the user message and a
\* prefix to the request text (App.tsx 53, 68-69, 90-92); the transcript of
\* the model does not hold it.
PerformSubmit(g) ==
  /\ Trim(input) # <<>> \/ fileData # None \/ folderData # None
  /\ HandleSendMessage(Trim(input), fileData, g)
  /\ input' = <<>>
  /\ fileData' = None
  /\ folderData' = None
  /\ inputError' = None
  /\ UNCHANGED <<reading, folderReading>>

\* The user types prompt into the empty composer, picks attachment and
\* submits; the composer is empty again afterwards
TypeAndSubmit(prompt, attachment, g) ==
  /\ input = <<>> /\ fileData = None /\ folderData = None
  /\ Trim(prompt) # <<>> \/ attachment # None
  /\ HandleSendMessage(prompt, attachment, g)
  /\ UNCHANGED composerVars

\* generateContentStream resolves: the placeholder is appended (App.tsx 113-114)
StreamOpens(g) ==
  /\ pc = "awaitStream"
  /\ pc' = "streaming"
  /\ modelResponse' = <<>>
  /\ Commit(Append(messages, ModelMessage(<<>>)), g)
  /\ UNCHANGED <<language, isLoading, error, chunks, turns>>
  /\ UNCHANGED <<composerVars, clipboard, discarded, downloaded>>

\* One iteration of the for-await loop with the delta text (App.tsx 116-123)
StreamChunk(text, g) ==
  /\ pc = "streaming"
  /\ Len(chunks) < MaxDeltas
  /\ chunks' = Append(chunks, text)
  /\ modelResponse' = AppendDelta(modelResponse, text)
  /\ Commit(ReplaceLast(messages, ModelMessage(modelResponse')), g)
  /\ UNCHANGED <<language, isLoading, error, pc, turns>>
  /\ UNCHANGED <<composerVars, clipboard, discarded, downloaded>>

\* The stream is exhausted: the finally block (App.tsx 137-139)
StreamEnds ==
  /\ pc = "streaming"
  /\ pc' = "idle"
  /\ isLoading' = FALSE
  /\ UNCHANGED <<language, messages, error, modelResponse, chunks, turns>>
  /\ UNCHANGED <<scrollVars, diagVars, viewVars, sideVars>>

\* A failure whose finally block does not run
TransportFailsWithoutFinally(errorMessage, g) ==
  /\ pc \in {"awaitStream", "streaming"}
  /\ pc' = "idle"
  /\ error' = ErrorText(errorMessage)
  /\ isLoading' = isLoading
  /\ Commit(Append(messages, ErrorReply(errorMessage)), g)
  /\ UNCHANGED <<language, modelResponse, chunks, turns>>
  /\ UNCHANGED <<composerVars, clipboard, discarded, downloaded>>

\* generateContentStream rejects, or the stream throws: catch and finally
\* (App.tsx 125-139)
TransportFails(errorMessage, g) ==
  /\ pc \in {"awaitStream", "streaming"}
  /\ pc' = "idle"
  /\ error' = ErrorText(errorMessage)
  /\ isLoading' = FALSE
  /\ Commit(Append(messages, ErrorReply(errorMessage)), g)
  /\ UNCHANGED <<language, modelResponse, chunks, turns>>
  /\ UNCHANGED <<composerVars, clipboard, discarded, downloaded>>

\* The language buttons (App.tsx 166, 173) and the effect on [language]
\* (34-43): the transcript becomes the greeting alone, which fits the view
SetLanguage(lang) ==
  /\ lang # language
  /\ language' = lang
  /\ messages' = <<ModelMessage(Greeting(lang))>>
  /\ maxTop' = 0
  /\ scrollTop' = 0
  /\ scrollEvt' = (scrollEvt \/ scrollTop # 0)
  /\ IF shouldAutoScroll THEN lastEffect' = "scroll" ELSE lastEffect' = "skip"
  /\ anim' = NoAnim
  /\ rendered' = Render(messages')
  /\ Reconcile(rendered')
  /\ UNCHANGED <<isLoading, error, pc, modelResponse, chunks, turns>>
  /\ UNCHANGED <<composerVars, clipboard, discarded, downloaded>>
  /\ UNCHANGED <<shouldAutoScroll, showScrollButton, scrollTimer, manual,
                 bottomAtSubmit>>

----------------------------------------------------------------------------
(* The state after the first render and its effects (App.tsx 28-43,        *)
(* ChatInput.tsx 298-323, ChatMessage.tsx 24): the greeting in the initial *)
(* language, no diagram, the pointer at the first point                    *)

Points == <<<<48, 4>>, <<8, 34>>>>

Init ==
  /\ language = "zh"
  /\ messages = <<ModelMessage(Greeting("zh"))>>
  /\ isLoading = FALSE
  /\ error = None
  /\ pc = "idle"
  /\ modelResponse = <<>>
  /\ chunks = <<>>
  /\ turns = 0
  /\ shouldAutoScroll = TRUE
  /\ showScrollButton = FALSE
  /\ scrollTop = 0
  /\ maxTop = 0
  /\ anim = NoAnim
  /\ scrollTimer = FALSE
  /\ scrollEvt = FALSE
  /\ lastEffect = "scroll"
  /\ manual = "none"
  /\ bottomAtSubmit = TRUE
  /\ rendered = Render(<<ModelMessage(Greeting("zh"))>>)
  /\ diagrams = <<>>
  /\ tasks = {}
  /\ transform = IdentityTransform
  /\ contentStyle = FreshContentStyle
  /\ rafQueued = 0
  /\ wheelThrottle = FALSE
  /\ moveThrottle = FALSE
  /\ pan = FreshPan
  /\ resetTimers = 0
  /\ listeners = {}
  /\ bodyStyle = [overflow |-> "", userSelect |-> ""]
  /\ viewportCursor = "grab"
  /\ pointer = Points[1]
  /\ wheels = 0
  /\ moves = 0
  /\ trail = None
  /\ input = <<>>
  /\ fileData = None
  /\ reading = {}
  /\ folderData = None
  /\ inputError = None
  /\ folderReading = {}
  /\ clipboard = <<>>
  /\ codeCopied = {}
  /\ discarded = FALSE
  /\ closedInDrag = FALSE
  /\ downloaded = <<>>
  /\ copyTasks = {}

----------------------------------------------------------------------------
(* Spec: the transcript reconciler.  The transport yields deltas from      *)
(* Deltas; the content always fits the view, so nothing scrolls.           *)

Prompts == {<<"a">>, <<>>}
Attachments == {None, Some([dataUrl |-> GoodDataUrl]), Some([dataUrl |-> EmptyFileDataUrl])}
Deltas == {<<"a">>, <<"b", "c">>}
Languages == {"zh", "en"}
TransportErrors == {"net"}

Next ==
  \/ \E p \in Prompts, a \in Attachments : TypeAndSubmit(p, a, 0)
  \/ StreamOpens(0)
  \/ \E d \in Deltas : StreamChunk(d, 0)
  \/ StreamEnds
  \/ \E e \in TransportErrors : TransportFails(e, 0)
  \/ \E l \in Languages : SetLanguage(l)
  \/ ScrollTimerFire

Spec == Init /\ [][Next]_vars

\* C1: after the k-th delta of a reply is processed, the trailing message is a
\* model message whose content is the concatenation of the first k deltas in
\* arrival order, which extends the content shown after the (k-1)-th delta by
\* exactly the k-th delta.
C1_DeltasConcatenated ==
  [][(pc = "streaming" /\ chunks' # chunks) =>
       /\ Last(messages').role = MODEL
       /\ Last(messages').content = Flatten(chunks')
       /\ Last(messages').content = Flatten(chunks) \o Last(chunks')
       /\ Len(messages') = Len(messages)]_vars

\* C1 witness: three deltas, not all equal, have been applied to the reply
C1_Witness ==
  /\ pc = "streaming"
  /\ Len(chunks) = 3
  /\ chunks[1] # chunks[2]
  /\ Last(messages).role = MODEL
  /\ Last(messages).content = Flatten(chunks)

----------------------------------------------------------------------------
(* SpecSeg: one reply whose deltas are pieces of fenced text, rendered by   *)
(* the segmenter, with the diagrams it mounts                              *)

FENCE == <<BT, BT, BT>>
\* a complete diagram block with a capitalised tag: ```Mermaid\na```
DiagramBlock == FENCE \o <<"M", "e", "r", "m", "a", "i", "d", NL, "a">> \o FENCE
SegDeltas ==
  {DiagramBlock, FENCE \o <<"j", "s", NL, "b">>, FENCE, <<SP>>,
   FENCE \o MERMAID \o <<NL>>, <<"a">>}
Outcomes == {"svg", "nosvg", "error"}

NextSeg ==
  \/ turns = 0 /\ TypeAndSubmit(<<"a">>, None, 0)
  \/ StreamOpens(0)
  \/ \E d \in SegDeltas : StreamChunk(d, 0)
  \/ StreamEnds
  \/ \E l \in Languages : SetLanguage(l)
  \/ ScrollTimerFire
  \/ \E key \in DOMAIN diagrams : RenderDiagram(key)
  \/ \E t \in tasks, o \in Outcomes : MermaidSettles(t, o)

SpecSeg == Init /\ [][NextSeg]_vars

IsBlank(text) == \A i \in 1..Len(text) : text[i] \in SpaceChars

HasPrefix(text, prefix) ==
  Len(prefix) <= Len(text) /\ SubSeq(text, 1, Len(prefix)) = prefix

\* text is the source spans of segs in order, with nothing but whitespace
\* before, between and after them
RECURSIVE Covers(_, _)
Covers(text, segs) ==
  IF segs = <<>> THEN IsBlank(text)
  ELSE \E k \in 0..Len(text) :
         /\ IsBlank(SubSeq(text, 1, k))
         /\ HasPrefix(SubSeq(text, k + 1, Len(text)), Head(segs).part)
         /\ Covers(SubSeq(text, k + 1 + Len(Head(segs).part), Len(text)), Tail(segs))

\* C2: for every model message, the source spans of its segments are in
\* source order and disjoint, and with whitespace-only gaps between them they
\* concatenate to the content exactly.
C2_SpansReconstructText ==
  \A i \in 1..Len(messages) :
    messages[i].role = MODEL => Covers(messages[i].content, rendered[i])

SpansLength(segs) == Len(Flatten([k \in 1..Len(segs) |-> segs[k].part]))

\* C2 witness: a message of a fenced block and another segment, with
\* whitespace between them that no segment holds
C2_Witness ==
  \E i \in 1..Len(messages) :
    /\ Len(rendered[i]) >= 2
    /\ \E k \in 1..Len(rendered[i]) : rendered[i][k].kind # "Prose"
    /\ SpansLength(rendered[i]) < Len(messages[i].content)

\* a span that is one terminated fence: it opens and closes with three
\* backticks
IsTerminatedFence(part) ==
  Len(part) >= 6 /\ IsFenceAt(part, 1) /\ IsFenceAt(part, Len(part) - 2)

\* a terminated fence lies somewhere inside the span
HoldsTerminatedFence(part) ==
  \E i, j \in 1..Len(part) : j >= i + 3 /\ IsFenceAt(part, i) /\ IsFenceAt(part, j)

\* the tag of a fence: the word characters that follow its opening backticks
FenceTag(part) ==
  LET n == CHOOSE n \in 0..(Len(part) - 6) :
             /\ \A i \in 1..n : IsWord(part[3 + i])
             /\ n = Len(part) - 6 \/ ~IsWord(part[4 + n])
  IN  SubSeq(part, 4, 3 + n)

\* C3: a segment whose span is a terminated fence is a Diagram when its tag is
\* mermaid in any letter case and a Code otherwise; every other span, the
\* text of an unterminated fence included, is Prose, and no Prose span holds
\* a terminated fence.
C3_FenceClassification ==
  \A i \in 1..Len(messages) : \A k \in 1..Len(rendered[i]) :
    LET seg == rendered[i][k]
    IN  IF IsTerminatedFence(seg.part)
        THEN seg.kind = (IF ToLowerCase(FenceTag(seg.part)) = MERMAID
                         THEN "Diagram" ELSE "Code")
        ELSE seg.kind = "Prose" /\ ~HoldsTerminatedFence(seg.part)

\* C3 witness: one message with a Diagram whose tag is capitalised and a
\* Prose segment that is an unterminated fence
C3_Witness ==
  \E i \in 1..Len(messages) : \E k, n \in 1..Len(rendered[i]) :
    /\ rendered[i][k].kind = "Diagram"
    /\ rendered[i][k].language # MERMAID
    /\ rendered[i][n].kind = "Prose"
    /\ IsFenceAt(rendered[i][n].part, 1)

\* DiagramRenderResult of an instance: how it renders (ChatMessage.tsx 305,
\* 312-323)
DiagramRenderResult(d) ==
  IF d.isLoading THEN "Pending"
  ELSE IF IsRenderSuccess(d.svg) THEN "Success" ELSE "Failed"

\* C10: an instance that mounts is Pending with no markup; an instance that has
\* left Pending keeps its result and its markup in every later step in which
\* it stays mounted.
C10_OneShotResult ==
  [][/\ \A key \in (DOMAIN diagrams') \ DOMAIN diagrams :
          DiagramRenderResult(diagrams'[key]) = "Pending" /\ diagrams'[key].svg = NoSvg
     /\ \A key \in (DOMAIN diagrams) \cap DOMAIN diagrams' :
          DiagramRenderResult(diagrams[key]) # "Pending" =>
            /\ DiagramRenderResult(diagrams'[key]) = DiagramRenderResult(diagrams[key])
            /\ diagrams'[key].svg = diagrams[key].svg]_vars

\* C10 witness: after three deltas one instance is in Success and another in
\* Failed
C10_Witness ==
  /\ Len(chunks) = 3
  /\ \E k1, k2 \in DOMAIN diagrams :
       /\ DiagramRenderResult(diagrams[k1]) = "Success"
       /\ DiagramRenderResult(diagrams[k2]) = "Failed"

----------------------------------------------------------------------------
(* SpecScroll: the autoscroll policy.  Every message and every delta makes  *)
(* the content taller by one of Growths pixels; the user scrolls to the top *)
(* or to the bottom.                                                       *)

Growths == {80}
ScrollStops == {0, maxTop}

NextScroll ==
  \/ \E g \in Growths : TypeAndSubmit(<<"a">>, None, g)
  \/ \E g \in Growths : StreamOpens(g)
  \/ \E g \in Growths : StreamChunk(<<"a">>, g)
  \/ StreamEnds
  \/ ScrollTimerFire
  \/ SmoothScrollFrame
  \/ HandleScroll
  \/ HandleScrollToBottom
  \/ \E pos \in ScrollStops : UserScroll(pos)

SpecScroll == Init /\ [][NextScroll]_vars

\* C8, as the claim states it: a delta scrolls the view exactly when
\* shouldAutoScroll is set; it does when the view was at the bottom at the
\* submission and the user has not scrolled since; it does not once the user
\* has scrolled up by more than the threshold and that scroll was handled.
C8_DeltasFollowIntent ==
  [][(pc = "streaming" /\ chunks' # chunks) =>
       /\ (lastEffect' = "scroll") = shouldAutoScroll
       /\ (bottomAtSubmit /\ manual = "none") => lastEffect' = "scroll"
       /\ (manual = "up" /\ ~scrollEvt) => lastEffect' = "skip"]_vars

\* C9, as the claim states it: the scroll-to-bottom button is shown exactly
\* when shouldAutoScroll is false.
C9_ButtonIffNoIntent == showScrollButton = ~shouldAutoScroll

----------------------------------------------------------------------------
(* The gestures on the modal of a diagram.  Both specifications start with *)
(* one reply that holds a diagram.  In SpecZoom the user moves the pointer *)
(* and drags the content first and turns the wheel afterwards, up to       *)
(* MaxWheel times; in SpecView the gestures interleave freely, with up to  *)
(* MaxViewWheel wheel events.                                              *)

WheelDeltas == {-100, 100}

DiagramReply ==
  \/ turns = 0 /\ TypeAndSubmit(<<"a">>, None, 0)
  \/ StreamOpens(0)
  \/ chunks = <<>> /\ StreamChunk(DiagramBlock, 0)
  \/ StreamEnds
  \/ ScrollTimerFire
  \/ \E key \in DOMAIN diagrams : RenderDiagram(key)
  \/ \E t \in tasks, o \in Outcomes : MermaidSettles(t, o)

Timers ==
  \/ WheelThrottleExpires
  \/ MoveThrottleExpires
  \/ AnimationFrame
  \/ ResetTimeout

NextZoom ==
  \/ DiagramReply
  \/ \E key \in DOMAIN diagrams : pc = "idle" /\ ~scrollTimer /\ OpenModal(key)
  \/ CloseModal
  \/ \E d \in WheelDeltas :
       wheels < MaxWheel /\ "mouseup" \notin listeners /\ Wheel(d)
  \/ Timers
  \/ wheels = 0 /\ MouseDown
  \/ \E i \in 1..Len(Points) :
       wheels = 0 /\ moves < MaxMoves /\ OpenModals # {} /\ PointerMove(Points[i])
  \/ MouseUp
  \/ ResetTransform

SpecZoom == Init /\ [][NextZoom]_vars

NextView ==
  \/ DiagramReply
  \/ \E key \in DOMAIN diagrams : pc = "idle" /\ ~scrollTimer /\ OpenModal(key)
  \/ CloseModal
  \/ \E d \in WheelDeltas : wheels < MaxViewWheel /\ Wheel(d)
  \/ Timers
  \/ MouseDown
  \/ \E i \in 1..Len(Points) :
       moves < MaxMoves /\ OpenModals # {} /\ PointerMove(Points[i])
  \/ MouseUp
  \/ ResetTransform

SpecView == Init /\ [][NextView]_vars

\* C4: the scale of the transform is always within [0.2, 10].
C4_ScaleWithinLimits ==
  MinScale <= transform.scale /\ transform.scale <= MaxScale

\* C4 witness: a zoom-in step was cut at the upper limit
C4_Witness ==
  /\ transform.scale = MaxScale
  /\ trail # None /\ trail[1].deltaY < 0
  /\ NewScale(trail[1].before, trail[1].deltaY) > MaxScale

\* the point of the content under the viewport position c is the same for the
\* transforms t and u, to within half a pixel on the screen
SamePointUnder(c, tx, ts, ux, us) ==
  2 * Abs((c - ux) * ts - (c - tx) * us) <= ts

\* C5: a wheel step that changes the scale keeps the point of the content
\* under the cursor where it was, on both axes, also when the scale was
\* clamped.
C5_CursorAnchored ==
  [][\A d \in WheelDeltas :
       (Wheel(d) /\ transform'.scale # transform.scale) =>
         /\ SamePointUnder(pointer[1] - ViewportRect.left,
                           transform.x, transform.scale,
                           transform'.x, transform'.scale)
         /\ SamePointUnder(pointer[2] - ViewportRect.top,
                           transform.y, transform.scale,
                           transform'.y, transform'.scale)]_vars

\* C5 witness: a step clamped at the upper limit has shifted a panned content
C5_Witness ==
  /\ transform.scale = MaxScale
  /\ trail # None /\ trail[1].before # MaxScale
  /\ NewScale(trail[1].before, trail[1].deltaY) > MaxScale
  /\ transform.x # 0 /\ transform.y # 0
  /\ moves > 0

\* a handled zoom-out event follows a handled zoom-in event with no other
\* input between them
ZoomInThenOut ==
  /\ trail # None /\ trail[1].deltaY < 0
  /\ wheels' = wheels + 1
  /\ trail' # None /\ trail'[1].deltaY > 0

\* C6, as the claim states it: after a zoom-in event immediately followed by
\* a zoom-out event the scale is what it was before the pair, to within one
\* step of the grid.
C6_InThenOutRestores ==
  [][ZoomInThenOut => Abs(transform'.scale - trail[1].before) <= 1]_vars

\* C6, amended: the same when the zoom-in step was not cut at the upper limit.
C6_InThenOutRestoresBelowLimit ==
  [][(ZoomInThenOut /\ NewScale(trail[1].before, trail[1].deltaY) <= MaxScale)
       => Abs(transform'.scale - trail[1].before) <= 1]_vars

\* C6 witness: a pair that started away from 1 has been undone
C6_Witness ==
  /\ trail # None /\ trail[1].deltaY > 0
  /\ wheels >= 4
  /\ transform.scale > 4 * IdentityScale
  /\ NewScale(transform.scale, -100) = trail[1].before

\* C7: a reset leaves the transform at scale 1 and translation (0, 0).
C7_ResetRestoresIdentity ==
  [][ResetTransform => transform' = IdentityTransform]_vars

\* C7 witness: a reset has acted on a zoomed and panned content
C7_Witness ==
  /\ transform = IdentityTransform
  /\ resetTimers > 0
  /\ contentStyle.transition # ""
  /\ wheels > 0 /\ moves > 0
  /\ OpenModals # {}

----------------------------------------------------------------------------
(* SpecSegFair: one reply made of diagram fences, complete or still open   *)
(* (the opening fence of the next block closes an open one, with an empty  *)
(* body), in which every effect that React scheduled runs and              *)
(* every pending call of mermaid.render settles: while an effect is still  *)
(* to run one of them runs, and while a call is pending one of them        *)
(* settles.                                                                *)

FairDeltas == {DiagramBlock, FENCE \o MERMAID \o <<NL>>}

NextSegFair ==
  \/ turns = 0 /\ TypeAndSubmit(<<"a">>, None, 0)
  \/ StreamOpens(0)
  \/ \E d \in FairDeltas : StreamChunk(d, 0)
  \/ StreamEnds
  \/ \E l \in Languages : SetLanguage(l)
  \/ ScrollTimerFire
  \/ \E key \in DOMAIN diagrams : RenderDiagram(key)
  \/ \E t \in tasks, o \in Outcomes : MermaidSettles(t, o)

\* The React keys a MermaidDiagram can have: the reply is the message at
\* index 1 to 3, and the n deltas of a reply hold at most 2n fences, so at
\* most n blocks with a text part before each
DiagramKeySpace == (1..3) \X (1..(2 * MaxDeltas))

SpecSegFair ==
  /\ Init /\ [][NextSegFair]_vars
  /\ WF_vars(\E key \in DOMAIN diagrams : RenderDiagram(key))
  /\ WF_vars(\E t \in tasks, o \in Outcomes : MermaidSettles(t, o))

ShowsError(svg, errorMessage) ==
  /\ Len(svg) >= 3 /\ svg[2] = "Diagram Error:"
  /\ \E i \in 3..Len(svg) : svg[i] = errorMessage

\* C12: when the compilation of a mounted instance fails, that instance
\* becomes Failed with a panel that shows the error text; every other
\* instance, the rendered segments of every message and the messages are
\* unchanged.
C12_FailureIsLocal ==
  [][\A t \in tasks :
       (t.alive /\ MermaidSettles(t, "error")) =>
         /\ DiagramRenderResult(diagrams'[t.key]) = "Failed"
         /\ ShowsError(diagrams'[t.key].svg, "parse")
         /\ DOMAIN diagrams' = DOMAIN diagrams
         /\ \A key \in (DOMAIN diagrams) \ {t.key} : diagrams'[key] = diagrams[key]
         /\ rendered' = rendered
         /\ messages' = messages]_vars

\* C12 witness: a message with a Failed diagram that shows the error text, a
\* diagram in Success and a third segment
C12_Witness ==
  \E k1, k2 \in DOMAIN diagrams :
    /\ k1[1] = k2[1]
    /\ ShowsError(diagrams[k1].svg, "parse")
    /\ DiagramRenderResult(diagrams[k2]) = "Success"
    /\ Len(rendered[k1[1]]) >= 3

\* C13: when the compilation of an instance that has unmounted settles, with
\* any outcome, no instance's state changes.
C13_LateResultDiscarded ==
  [][\A t \in tasks : \A o \in Outcomes :
       (~t.alive /\ MermaidSettles(t, o)) => diagrams' = diagrams]_vars

\* C13 witness: a result has arrived after its instance unmounted, and an
\* instance mounted since then is still Pending with no markup
C13_Witness ==
  /\ discarded
  /\ \E key \in DOMAIN diagrams :
       /\ diagrams[key].isLoading /\ diagrams[key].svg = NoSvg
       /\ \E t \in tasks : t.key = key /\ t.alive

----------------------------------------------------------------------------
(* The copy buttons of MermaidDiagram and CodeBlock (ChatMessage.tsx       *)
(* 284-289, 327-333, 388-393, 399-402).  The clipboard write and the       *)
(* acknowledgment that follows it are one step; the acknowledgment is      *)
(* taken back by a timer.                                                  *)

\* The rendered markup in place of the chart
DiagramCopyMarkup(d) == d.svg

\* the argument of writeText in MermaidDiagram.handleCopy (285)
DiagramCopyText(d) == d.chart

\* the argument of writeText in CodeBlock.handleCopy (389): the code prop
CodeCopyText(seg) == seg.payload

\* MermaidDiagram.handleCopy (284-289) up to the call of writeText, which
\* puts the text on the clipboard; the button is in the toolbar, which is
\* rendered when isLoading is false (325-333), and an open modal covers the
\* page.  The then callback runs later.
HandleCopy(key) ==
  /\ key \in DOMAIN diagrams
  /\ ~diagrams[key].isLoading
  /\ OpenModals = {}
  /\ Cardinality(copyTasks) < MaxCopyTasks
  /\ clipboard' = DiagramCopyText(diagrams[key])
  /\ copyTasks' = copyTasks \cup
       {[key |-> key, kind |-> "diagram", alive |-> TRUE, phase |-> "write"]}
  /\ UNCHANGED <<composerVars, codeCopied, discarded, closedInDrag,
                 downloaded>>
  /\ UNCHANGED <<appVars, scrollVars, diagVars, viewVars>>

\* CodeBlock.handleCopy (388-393) up to the call of writeText
HandleCopyCode(key) ==
  /\ key \in CodeKeys(rendered)
  /\ OpenModals = {}
  /\ Cardinality(copyTasks) < MaxCopyTasks
  /\ clipboard' = CodeCopyText(rendered[key[1]][key[2]])
  /\ copyTasks' = copyTasks \cup
       {[key |-> key, kind |-> "code", alive |-> TRUE, phase |-> "write"]}
  /\ UNCHANGED <<composerVars, codeCopied, discarded, closedInDrag,
                 downloaded>>
  /\ UNCHANGED <<appVars, scrollVars, diagVars, viewVars>>

\* setCopied(value) called by a continuation of task t (286-287, 390-391),
\* which no flag guards: React applies it to a mounted instance and drops
\* it for an unmounted one
SetCopied(t, value) ==
  /\ IF t.alive /\ t.kind = "diagram"
     THEN diagrams' = [diagrams EXCEPT ![t.key].copied = value]
     ELSE UNCHANGED diagrams
  /\ IF t.alive /\ t.kind = "code"
     THEN codeCopied' = IF value THEN codeCopied \cup {t.key}
                        ELSE codeCopied \ {t.key}
     ELSE UNCHANGED codeCopied

\* The then callback of writeText (286-288, 390-392): setCopied(true) and
\* the start of the timeout
ClipboardWritten(t) ==
  /\ t \in copyTasks /\ t.phase = "write"
  /\ copyTasks' = (copyTasks \ {t}) \cup {[t EXCEPT !.phase = "timer"]}
  /\ SetCopied(t, TRUE)
  /\ UNCHANGED <<composerVars, clipboard, discarded, closedInDrag, downloaded>>
  /\ UNCHANGED <<appVars, scrollVars, rendered, tasks, viewVars>>

\* setTimeout(() => setCopied(false), 2000) of MermaidDiagram (287) and of
\* CodeBlock (391)
CopiedTimeout(t) ==
  /\ t \in copyTasks /\ t.phase = "timer"
  /\ copyTasks' = copyTasks \ {t}
  /\ SetCopied(t, FALSE)
  /\ UNCHANGED <<composerVars, clipboard, discarded, closedInDrag, downloaded>>
  /\ UNCHANGED <<appVars, scrollVars, rendered, tasks, viewVars>>

\* SpecCopy: one reply of diagram blocks and open code fences (the opening
\* fence of the next block closes an open one), and the copy buttons, used
\* when no reply is in flight
CopyDeltas == {DiagramBlock, FENCE \o <<"j", "s", NL, "b">>}

NextCopy ==
  \/ turns = 0 /\ TypeAndSubmit(<<"a">>, None, 0)
  \/ StreamOpens(0)
  \/ \E d \in CopyDeltas : StreamChunk(d, 0)
  \/ StreamEnds
  \/ \E l \in Languages : SetLanguage(l)
  \/ ScrollTimerFire
  \/ \E key \in DOMAIN diagrams : RenderDiagram(key)
  \/ \E t \in tasks, o \in Outcomes : MermaidSettles(t, o)
  \/ \E key \in DOMAIN diagrams : pc = "idle" /\ HandleCopy(key)
  \/ \E key \in CodeKeys(rendered) : pc = "idle" /\ HandleCopyCode(key)
  \/ \E t \in copyTasks : ClipboardWritten(t)
  \/ \E t \in copyTasks : CopiedTimeout(t)

SpecCopy == Init /\ [][NextCopy]_vars

\* the payload the Segmenter gave the segment that has the React key key
SourceText(key) == rendered[key[1]][key[2]].payload

\* C14: a copy on a diagram, in Success or in Failed, leaves the description
\* of its segment on the clipboard, and a copy on a code block the code of
\* its segment.
C14_CopyPutsSource ==
  [][/\ \A key \in DOMAIN diagrams :
          HandleCopy(key) =>
            /\ DiagramRenderResult(diagrams[key]) \in {"Success", "Failed"}
            /\ clipboard' = SourceText(key)
     /\ \A key \in CodeKeys(rendered) :
          HandleCopyCode(key) => clipboard' = SourceText(key)]_vars

\* C14 witness: a Failed diagram and a code block were copied; the clipboard
\* holds the code, and the markup of the diagram is an error panel
C14_Witness ==
  /\ \E key \in DOMAIN diagrams :
       /\ diagrams[key].copied
       /\ ShowsError(diagrams[key].svg, "parse")
  /\ \E key \in codeCopied :
       clipboard = SourceText(key) /\ clipboard # <<>>

----------------------------------------------------------------------------
(* The transcript under Spec *)

\* C15, as the claim states it: a submission that reaches the transport
\* appends the user message; when the stream opens an empty model message is
\* appended right after that user message; and when the first delta of the
\* reply is applied, that placeholder is the last message, after the user
\* message.
C15_PlaceholderBeforeFirstDelta ==
  [][/\ (pc = "idle" /\ pc' = "awaitStream") =>
          /\ Len(messages') = Len(messages) + 1
          /\ SubSeq(messages', 1, Len(messages)) = messages
          /\ Last(messages').role = USER
     /\ (pc = "awaitStream" /\ pc' = "streaming") =>
          /\ messages' = Append(messages, ModelMessage(<<>>))
          /\ Last(messages).role = USER
     /\ (pc = "streaming" /\ chunks = <<>> /\ chunks' # <<>>) =>
          /\ Last(messages) = ModelMessage(<<>>)
          /\ Len(messages) >= 2
          /\ messages[Len(messages) - 1].role = USER]_vars

\* every message of before but the last is where it was, and none was removed
KeepsAllButLast(before, after) ==
  /\ Len(after) >= Len(before)
  /\ \A i \in 1..(Len(before) - 1) : after[i] = before[i]

\* C16, as the claim states it: in every step, a language switch included,
\* every message other than the last keeps its position and content and no
\* message is removed.
C16_AppendOnlyExceptLast == [][KeepsAllButLast(messages, messages')]_vars

\* C16, amended: the same in every step that is not a language switch; a
\* language switch replaces the transcript by the greeting in the new
\* language.
C16_AppendOnlyBetweenLanguageSwitches ==
  [][IF language' = language
     THEN KeepsAllButLast(messages, messages')
     ELSE messages' = <<ModelMessage(Greeting(language'))>>]_vars

\* C16 witness: after a language switch, the second reply streams below the
\* messages of a first turn
C16_Witness ==
  /\ language = "en"
  /\ turns = 2
  /\ pc = "streaming" /\ Len(chunks) >= 2
  /\ Len(messages) >= 5

----------------------------------------------------------------------------
(* The composer (ChatInput.tsx 51-185)                                     *)

\* the size limits (ChatInput.tsx 15-17), in bytes
MaxFileBytes == MAX_FILE_SIZE_MB * 1024 * 1024
MaxFolderBytes == MAX_TOTAL_FOLDER_SIZE_MB * 1024 * 1024
MaxIndividualBytes == MAX_INDIVIDUAL_FILE_IN_FOLDER_KB * 1024

\* onChange of the textarea, which is disabled while isLoading
SetInput(text) ==
  /\ ~isLoading
  /\ text # input
  /\ input' = text
  /\ UNCHANGED <<fileData, reading, folderData, inputError, folderReading>>
  /\ UNCHANGED <<otherSide, appVars, scrollVars, diagVars, viewVars>>

\* hasAttachment (ChatInput.tsx 187)
HasAttachment == fileData # None \/ folderData # None

\* A processFile without the size check
ProcessFileUnchecked(file) ==
  /\ ~isLoading
  /\ fileData' = None
  /\ folderData' = None
  /\ Cardinality(reading) < MaxReads
  /\ file.dataUrl \notin reading
  /\ inputError' = None
  /\ reading' = reading \cup {file.dataUrl}
  /\ UNCHANGED <<input, folderReading>>
  /\ UNCHANGED <<otherSide, appVars, scrollVars, diagVars, viewVars>>

\* processFile (ChatInput.tsx 82-98) for a file of file.size bytes whose data
\* URL will be file.dataUrl: resetAttachments, then the size check, which
\* sets the error and returns, or the start of the read.  The file comes
\* from the file input, whose button is disabled while there is an
\* attachment, or from a paste into the textarea.
ProcessFile(file) ==
  /\ ~isLoading
  /\ fileData' = None
  /\ folderData' = None
  /\ IF file.size > MaxFileBytes
     THEN /\ inputError' = Some("File is too large.")
          /\ UNCHANGED reading
     ELSE /\ Cardinality(reading) < MaxReads
          /\ file.dataUrl \notin reading
          /\ inputError' = None
          /\ reading' = reading \cup {file.dataUrl}
  /\ UNCHANGED <<input, folderReading>>
  /\ UNCHANGED <<otherSide, appVars, scrollVars, diagVars, viewVars>>

\* reader.onload (ChatInput.tsx 89-95)
ReaderLoads(dataUrl) ==
  /\ dataUrl \in reading
  /\ reading' = reading \ {dataUrl}
  /\ fileData' = Some([dataUrl |-> dataUrl])
  /\ UNCHANGED <<input, folderData, inputError, folderReading>>
  /\ UNCHANGED <<otherSide, appVars, scrollVars, diagVars, viewVars>>

\* reader.onerror (ChatInput.tsx 96)
ReaderFails(dataUrl) ==
  /\ dataUrl \in reading
  /\ reading' = reading \ {dataUrl}
  /\ inputError' = Some("Failed to read file.")
  /\ UNCHANGED <<input, fileData, folderData, folderReading>>
  /\ UNCHANGED <<otherSide, appVars, scrollVars, diagVars, viewVars>>

RECURSIVE SumSizes(_)
\* totalSize (ChatInput.tsx 104)
SumSizes(files) == IF files = <<>> THEN 0 ELSE Head(files) + SumSizes(Tail(files))

\* The files of a folder whose text is read: text files under 100 KB that
\* are not empty (ChatInput.tsx 115-121); files are the sizes of the files
\* of the folder, all of a text type
FolderContents(files) ==
  SelectSeq(files, LAMBDA size : size < MaxIndividualBytes /\ size # 0)

\* processFolder (ChatInput.tsx 100-108) up to its await, from the folder
\* input, whose button is disabled while there is an attachment:
\* resetAttachments, then the check of the total size, which sets the error
\* and returns, or the start of the reads
ProcessFolder(files) ==
  /\ ~isLoading
  /\ ~HasAttachment
  /\ files # <<>>
  /\ fileData' = None
  /\ folderData' = None
  /\ IF SumSizes(files) > MaxFolderBytes
     THEN /\ inputError' = Some("Folder is too large.")
          /\ UNCHANGED folderReading
     ELSE /\ Cardinality(folderReading) < MaxReads
          /\ files \notin folderReading
          /\ inputError' = None
          /\ folderReading' = folderReading \cup {files}
  /\ UNCHANGED <<input, reading>>
  /\ UNCHANGED <<otherSide, appVars, scrollVars, diagVars, viewVars>>

\* processFolder after Promise.all (ChatInput.tsx 130-145); a read that
\* fails resolves to null, so the catch block is never entered
FolderLoads(files) ==
  /\ files \in folderReading
  /\ folderReading' = folderReading \ {files}
  /\ folderData' = Some([fileCount |-> Len(files), content |-> FolderContents(files)])
  /\ UNCHANGED <<input, fileData, reading, inputError>>
  /\ UNCHANGED <<otherSide, appVars, scrollVars, diagVars, viewVars>>

\* resetAttachments (ChatInput.tsx 76-80) from the remove button of the
\* attachment chip (225, 250)
RemoveAttachment ==
  /\ HasAttachment
  /\ fileData' = None
  /\ folderData' = None
  /\ inputError' = None
  /\ UNCHANGED <<input, reading, folderReading>>
  /\ UNCHANGED <<otherSide, appVars, scrollVars, diagVars, viewVars>>

\* SpecCompose: the composer and the turns it submits
Inputs == {<<>>, <<"a">>, <<"a", SP>>}
DataUrls == {GoodDataUrl, EmptyFileDataUrl}
\* files at the size limit and one byte over it
Files ==
  [size : {MaxFileBytes}, dataUrl : DataUrls]
    \cup {[size |-> MaxFileBytes + 1, dataUrl |-> GoodDataUrl]}
\* folders whose total is at the limit and one byte over it, by file sizes
Folders == {<<MaxFolderBytes - 1, 1>>, <<MaxFolderBytes, 1>>}

NextCompose ==
  \/ \E text \in Inputs : SetInput(text)
  \/ \E file \in Files : ProcessFile(file)
  \/ \E u \in DataUrls : ReaderLoads(u)
  \/ \E u \in DataUrls : ReaderFails(u)
  \/ \E files \in Folders : ProcessFolder(files)
  \/ \E files \in Folders : FolderLoads(files)
  \/ RemoveAttachment
  \/ PerformSubmit(0)
  \/ StreamOpens(0)
  \/ \E d \in Deltas : Len(chunks) < 1 /\ StreamChunk(d, 0)
  \/ StreamEnds
  \/ \E e \in TransportErrors : TransportFails(e, 0)
  \/ ScrollTimerFire

SpecCompose == Init /\ [][NextCompose]_vars

\* the submission of this step fails to decode the pending attachment
DecodeFailure ==
  /\ PerformSubmit(0)
  /\ fileData # None
  /\ ~FileToPart(fileData[1].dataUrl)[1]

\* C18, as the claim states it: a submission whose attachment fails to
\* decode does not call the transport, and leaves the typed text and the
\* attachment in the composer as they were.
C18_DecodeFailureRestoresComposer ==
  [][DecodeFailure =>
       /\ pc' = "idle"
       /\ input' = input
       /\ fileData' = fileData]_vars

----------------------------------------------------------------------------
(* SpecModal: one reply of fenced text whose diagrams the user opens,      *)
(* drags, closes and downloads while the reply streams and afterwards, and *)
(* language switches that unmount them; the reply has up to two deltas     *)

\* The download button (ChatMessage.tsx 337-344), shown when isLoading is
\* false and isRenderSuccess holds and covered by an open modal, and
\* handleDownload (291-303), which saves the markup as a file
HandleDownload(key) ==
  /\ key \in DOMAIN diagrams
  /\ ~diagrams[key].isLoading
  /\ IsRenderSuccess(diagrams[key].svg)
  /\ OpenModals = {}
  /\ ~(diagrams[key].svg = NoSvg \/ ~IsRenderSuccess(diagrams[key].svg))
  /\ Len(downloaded) < MaxDownloads
  /\ downloaded' = Append(downloaded, diagrams[key].svg)
  /\ UNCHANGED <<composerVars, clipboard, codeCopied, discarded, closedInDrag,
                 copyTasks>>
  /\ UNCHANGED <<appVars, scrollVars, diagVars, viewVars>>

ModalDeltas == {DiagramBlock, FENCE \o MERMAID \o <<NL>>}

NextModal ==
  \/ turns = 0 /\ TypeAndSubmit(<<"a">>, None, 0)
  \/ StreamOpens(0)
  \/ \E d \in ModalDeltas : Len(chunks) < MaxModalDeltas /\ StreamChunk(d, 0)
  \/ StreamEnds
  \/ \E l \in Languages : SetLanguage(l)
  \/ ScrollTimerFire
  \/ \E key \in DOMAIN diagrams : RenderDiagram(key)
  \/ \E t \in tasks, o \in Outcomes : MermaidSettles(t, o)
  \/ \E key \in DOMAIN diagrams : OpenModal(key)
  \/ CloseModal
  \/ MouseDown
  \/ MouseUp
  \/ \E key \in DOMAIN diagrams : HandleDownload(key)

SpecModal == Init /\ [][NextModal]_vars

\* C19: whenever no modal is open, after a close by the close button, Escape
\* or the backdrop or after the unmount of its diagram, during a drag or not,
\* no listener of a modal is registered and the body does not hide its
\* overflow.
C19_ClosedModalLeavesNothing ==
  OpenModals = {} => listeners = {} /\ bodyStyle.overflow # "hidden"

\* C19 witness: a modal has gone during a drag, and none is open
C19_Witness ==
  /\ closedInDrag
  /\ OpenModals = {}
  /\ listeners = {}
  /\ bodyStyle.overflow = "auto"

\* C20: the diagram of an open modal is in Success; a step that opens a
\* modal or saves a file acts on a diagram in Success; and for a diagram in
\* Pending or in Failed neither the open nor the download can happen.
C20_OnlySuccessOpensAndDownloads ==
  /\ [](\A key \in OpenModals : DiagramRenderResult(diagrams[key]) = "Success")
  /\ [](\A key \in DOMAIN diagrams :
          DiagramRenderResult(diagrams[key]) # "Success" =>
            ~ENABLED OpenModal(key) /\ ~ENABLED HandleDownload(key))
  /\ [][/\ \A key \in OpenModals' \ OpenModals :
             /\ key \in DOMAIN diagrams
             /\ DiagramRenderResult(diagrams[key]) = "Success"
        /\ downloaded' # downloaded =>
             \E key \in DOMAIN diagrams :
               /\ DiagramRenderResult(diagrams[key]) = "Success"
               /\ downloaded' = Append(downloaded, diagrams[key].svg)]_vars

\* C20 witness: next to a diagram in Failed, a diagram in Success has been
\* saved and is open in the modal
C20_Witness ==
  /\ OpenModals # {}
  /\ downloaded # <<>>
  /\ \E key \in DOMAIN diagrams : DiagramRenderResult(diagrams[key]) = "Failed"

----------------------------------------------------------------------------
(* Rejection of oversized selections                                       *)

\* this step is processFile of a file over 4 MB, or processFolder of a
\* folder over 10 MB in total
OversizedFile == \E file \in Files : file.size > MaxFileBytes /\ ProcessFile(file)
OversizedFolder ==
  \E files \in Folders : SumSizes(files) > MaxFolderBytes /\ ProcessFolder(files)

\* C21: the step that handles an oversized file or folder starts no read for
\* it and leaves no pending attachment and no pending folder, sets an error
\* message, and leaves the typed text as it was.
C21_OversizedIsRejected ==
  [][(OversizedFile \/ OversizedFolder) =>
       /\ fileData' = None /\ folderData' = None
       /\ reading' = reading /\ folderReading' = folderReading
       /\ inputError' # None
       /\ input' = input]_vars

\* C21 witness: with text typed, the composer shows the error of an
\* oversized file and holds no attachment
C21_Witness ==
  /\ input = <<"a">>
  /\ inputError = Some("File is too large.")
  /\ ~HasAttachment
  /\ reading = {}

----------------------------------------------------------------------------
(* Failures and later turns                                                *)

\* this step is a submission whose own input is valid: no attachment, or one
\* whose data URL decodes
ValidSubmission ==
  /\ PerformSubmit(0)
  /\ fileData # None => FileToPart(fileData[1].dataUrl)[1]

\* C22, as the claim states it: whatever failed in earlier turns, a
\* submission with valid input reaches the transport, and no error reply is
\* appended for it.
C22_LaterTurnUnaffected ==
  [][ValidSubmission =>
       /\ pc' = "awaitStream"
       /\ error' = None
       /\ Last(messages').role = USER]_vars

----------------------------------------------------------------------------
(* Deltas and the placeholder                                              *)

\* C23, as the claim states it: the message that a delta replaces is the
\* model message of the streaming reply, holding the text of the reply so
\* far, and not the greeting; every other message stays as it is.
C23_DeltaChangesOnlyItsReply ==
  [][(\E d \in Deltas : StreamChunk(d, 0)) =>
       /\ Len(messages) > 1
       /\ Last(messages) = ModelMessage(modelResponse)
       /\ Len(messages') = Len(messages)
       /\ \A i \in 1..(Len(messages) - 1) : messages'[i] = messages[i]]_vars

----------------------------------------------------------------------------
(* The scroll lock of the page                                             *)

\* C24, as the claim states it: while a modal is open the body hides its
\* overflow.
C24_ScrollLockedWhileOpen ==
  OpenModals # {} => bodyStyle.overflow = "hidden"

----------------------------------------------------------------------------
(* Continuations after unmount                                             *)

----------------------------------------------------------------------------
(* SpecSubmitScroll: submissions with and without an attachment, whose     *)
(* replies have no deltas, while the user scrolls the transcript           *)

NextSubmitScroll ==
  \/ \E a \in Attachments, g \in Growths : TypeAndSubmit(<<"a">>, a, g)
  \/ \E g \in Growths : StreamOpens(g)
  \/ StreamEnds
  \/ ScrollTimerFire
  \/ SmoothScrollFrame
  \/ HandleScroll
  \/ \E pos \in ScrollStops : UserScroll(pos)

SpecSubmitScroll == Init /\ [][NextSubmitScroll]_vars

\* C26, as the claim states it: a step that appends a user message leaves
\* shouldAutoScroll true, and its effect calls scrollIntoView or leaves the
\* timeout that calls it pending.
C26_UserMessageForcesScroll ==
  [][turns' = turns + 1 =>
       /\ shouldAutoScroll'
       /\ scrollTimer' \/ lastEffect' = "scroll"]_vars

----------------------------------------------------------------------------
(* SpecReopen: one diagram whose modal the user opens, zooms, pans and     *)
(* closes any number of times, without the reset button                    *)

NextReopen ==
  \/ DiagramReply
  \/ \E key \in DOMAIN diagrams : pc = "idle" /\ ~scrollTimer /\ OpenModal(key)
  \/ CloseModal
  \/ \E d \in WheelDeltas : wheels < MaxViewWheel /\ Wheel(d)
  \/ WheelThrottleExpires
  \/ MoveThrottleExpires
  \/ AnimationFrame
  \/ MouseDown
  \/ \E i \in 1..Len(Points) :
       moves < MaxMoves /\ OpenModals # {} /\ PointerMove(Points[i])
  \/ MouseUp

SpecReopen == Init /\ [][NextReopen]_vars

\* C27: every step that opens the modal leaves the identity in transformRef
\* and on the content element, whatever the transform was before.
C27_OpensAtIdentity ==
  [][\A key \in DOMAIN diagrams :
       OpenModal(key) =>
         /\ transform' = IdentityTransform
         /\ contentStyle'.transform = IdentityTransform]_vars

\* C27 witness: the modal is open at the identity after one wheel step and
\* no pan; without the reset button only a close and a new open lead there
C27_Witness ==
  /\ OpenModals # {}
  /\ wheels = 1 /\ moves = 0
  /\ transform = IdentityTransform
  /\ contentStyle.transform = IdentityTransform

----------------------------------------------------------------------------
(* Wheel steps at the limits of the scale                                  *)

\* a zoom-in at the upper limit or a zoom-out at the lower limit
AtScaleLimit(scale, deltaY) ==
  \/ deltaY < 0 /\ scale = MaxScale
  \/ deltaY > 0 /\ scale = MinScale

\* C28: a handled wheel event that zooms in at scale 10 or out at scale 0.2
\* leaves scale, x and y as they were and requests no animation frame.
C28_WheelAtLimitIsNoOp ==
  [][\A d \in WheelDeltas :
       (Wheel(d) /\ AtScaleLimit(transform.scale, d)) =>
         /\ transform' = transform
         /\ rafQueued' = rafQueued]_vars

\* C28 witness: the last wheel event zoomed in at the upper limit, with the
\* content moved off the origin
C28_Witness ==
  /\ trail # None
  /\ trail[1].deltaY < 0 /\ trail[1].before = MaxScale
  /\ transform.scale = MaxScale
  /\ transform.x # 0 /\ transform.y # 0

----------------------------------------------------------------------------
(* SpecPan: one diagram in its modal; the pointer moves several times      *)
(* within one drag, also to a place outside the viewport                   *)

\* a pointer position left of and above the viewport
OutsidePoint == <<2, 1>>

PanPoints == Points \o <<OutsidePoint>>

\* the position lies in the viewport, whose events reach the listeners
\* registered on it (ChatMessage.tsx 170-171)
InViewport(p) == p[1] >= ViewportRect.left /\ p[2] >= ViewportRect.top

NextPan ==
  \/ DiagramReply
  \/ \E key \in DOMAIN diagrams : pc = "idle" /\ ~scrollTimer /\ OpenModal(key)
  \/ CloseModal
  \/ \E d \in WheelDeltas :
       wheels < MaxPanWheel /\ InViewport(pointer) /\ Wheel(d)
  \/ WheelThrottleExpires
  \/ MoveThrottleExpires
  \/ AnimationFrame
  \/ InViewport(pointer) /\ MouseDown
  \/ \E i \in 1..Len(PanPoints) :
       moves < MaxPanMoves /\ OpenModals # {} /\ PointerMove(PanPoints[i])
  \/ MouseUp

SpecPan == Init /\ [][NextPan]_vars

\* the translate that the pan in progress gives for the pointer at p
PanTranslate(p) ==
  <<pan.startTransform[1] + (p[1] - pan.startPoint[1]),
    pan.startTransform[2] + (p[2] - pan.startPoint[2])>>

\* C29, as the claim states it: while a drag is in progress every pointer
\* move to p leaves the translate at the drag's start translate plus the
\* displacement of p from the start point, and the scale as it was.
C29_EveryMoveTracksPointer ==
  [][\A i \in 1..Len(PanPoints) :
       (PointerMove(PanPoints[i]) /\ "mousemove" \in listeners) =>
         /\ <<transform'.x, transform'.y>> = PanTranslate(PanPoints[i])
         /\ transform'.scale = transform.scale]_vars

\* C29, amended: the same for every pointer move that arrives while the
\* 16 ms throttle of the move handler is open; a move that arrives while it
\* is shut changes nothing.
C29_HandledMoveTracksPointer ==
  [][\A i \in 1..Len(PanPoints) :
       (PointerMove(PanPoints[i]) /\ "mousemove" \in listeners) =>
         IF moveThrottle
         THEN transform' = transform
         ELSE /\ <<transform'.x, transform'.y>> = PanTranslate(PanPoints[i])
              /\ transform'.scale = transform.scale]_vars

\* C29 witness: in a drag of a zoomed diagram the second or a later move has
\* just been handled and the translate follows the pointer
C29_Witness ==
  /\ "mousemove" \in listeners
  /\ moves >= 2 /\ moveThrottle
  /\ transform.scale # IdentityScale
  /\ <<transform.x, transform.y>> = PanTranslate(pointer)
  /\ pointer # pan.startPoint

\* C30, as the claim states it: once the button is released or the pointer
\* has left the viewport, a pointer move leaves the transform alone.
C30_ReleaseOrLeaveEndsPan ==
  [][\A i \in 1..Len(PanPoints) :
       (/\ PointerMove(PanPoints[i])
        /\ viewportCursor # "grabbing" \/ ~InViewport(pointer)) =>
         transform' = transform]_vars

\* C30, amended: once the button is released a pointer move leaves the
\* transform alone until the next press; the pointer leaving the viewport
\* does not end the pan.
C30_ReleaseEndsPan ==
  [][\A i \in 1..Len(PanPoints) :
       (PointerMove(PanPoints[i]) /\ viewportCursor # "grabbing") =>
         transform' = transform]_vars

\* C30 witness: after a press and a release without a move in between, the
\* pointer has moved with the throttle open and the transform is untouched
C30_Witness ==
  /\ OpenModals # {}
  /\ "mouseup" \notin listeners
  /\ pan # FreshPan
  /\ moves = 1 /\ wheels = 0
  /\ pointer # pan.startPoint
  /\ transform = IdentityTransform

----------------------------------------------------------------------------
(* The transform on the content element and the stored transform           *)

\* C31: while the modal is open and no animation frame callback is pending,
\* the transform written on the content element is the one transformRef
\* holds, however many wheel and move events one frame served.
C31_ShownIsStoredWhenNoFramePending ==
  (OpenModals # {} /\ rafQueued = 0) => contentStyle.transform = transform

\* C31 witness: after two wheel events and a pan the frames have run and the
\* element shows the stored transform, which is not the identity
C31_Witness ==
  /\ OpenModals # {} /\ rafQueued = 0
  /\ wheels >= 2 /\ moves >= 1
  /\ transform.scale # IdentityScale
  /\ transform.x # 0
  /\ contentStyle.transform = transform

----------------------------------------------------------------------------
(* SpecMarkup: a reply whose text carries active content, in its prose and *)
(* in the chart of a diagram fence; what reaches innerHTML                 *)

\* a token of active content: a script element, an inline event handler
SCRIPT == "<script>"

\* marked.parse (ChatMessage.tsx 445): a paragraph; inline HTML of the
\* markdown source is passed through
MarkedParse(text) == <<"<p>">> \o text

\* DOMPurify.sanitize (ChatMessage.tsx 446): active content is removed
Sanitize(html) == SelectSeq(html, LAMBDA c : c # SCRIPT)

\* The values of dangerouslySetInnerHTML in the elements on screen: the prose
\* divs (447-452), the div of every diagram that is not loading (319-323) and
\* the content element of an open modal (218-223)
InnerHtml ==
  {Sanitize(MarkedParse(rendered[i][k].payload)) :
     <<i, k>> \in {p \in UNION {{<<j, n>> : n \in 1..Len(rendered[j])} :
                                  j \in 1..Len(rendered)} :
                    rendered[p[1]][p[2]].kind = "Prose"}}
  \cup {diagrams[key].svg : key \in {q \in DOMAIN diagrams : ~diagrams[q].isLoading}}

\* deltas: prose with active content, a diagram block whose chart holds
\* active content, a blank
MarkupDeltas ==
  {<<SCRIPT, "a">>, FENCE \o MERMAID \o <<NL, SCRIPT, "a">> \o FENCE, <<SP>>}

NextMarkup ==
  \/ turns = 0 /\ TypeAndSubmit(<<"a">>, None, 0)
  \/ StreamOpens(0)
  \/ \E d \in MarkupDeltas : StreamChunk(d, 0)
  \/ StreamEnds
  \/ ScrollTimerFire
  \/ \E key \in DOMAIN diagrams : RenderDiagram(key)
  \/ \E t \in tasks, o \in Outcomes : MermaidSettles(t, o)

SpecMarkup == Init /\ [][NextMarkup]_vars

\* C32, as the claim states it: every markup on screen that is set as
\* innerHTML is markup the sanitizer lets through unchanged: prose, diagram
\* image and diagram error text alike.
C32_DisplayedMarkupIsSanitized ==
  \A html \in InnerHtml : Sanitize(html) = html

----------------------------------------------------------------------------
(* Complete diagram fences while the reply streams                         *)

\* C33, as the claim states it: when a delta arrives, every diagram fence that
\* the reply text so far holds complete is a mounted instance, stays that
\* instance with its chart, and no new call of the compiler is started for it.
C33_CompleteFenceCompiledOnce ==
  [][(\E d \in SegDeltas : StreamChunk(d, 0)) =>
       \A k \in 1..Len(FormattedContent(modelResponse)) :
         FormattedContent(modelResponse)[k].kind = "Diagram" =>
           LET key == <<Len(messages'), k>>
           IN  /\ key \in DOMAIN diagrams
               /\ key \in DOMAIN diagrams'
               /\ diagrams'[key] = diagrams[key]
               /\ [key |-> key, alive |-> TRUE, phase |-> "start"]
                     \notin tasks' \ tasks]_vars

----------------------------------------------------------------------------
(* Blank spans and blank payloads                                          *)

\* the elements on screen, as <<message index, part index>>
RenderedKeys ==
  UNION {{<<i, k>> : k \in 1..Len(rendered[i])} : i \in 1..Len(rendered)}

\* C34, as the claim states it: no element on screen, prose, code or diagram,
\* has a payload that is empty or whitespace only.
C34_NoBlankPayload ==
  \A p \in RenderedKeys : Trim(rendered[p[1]][p[2]].payload) # <<>>

\* C34, amended: no element comes from an empty or whitespace-only span, and
\* no prose element has an empty or whitespace-only payload.
C34_NoBlankSpan ==
  \A p \in RenderedKeys :
    LET seg == rendered[p[1]][p[2]]
    IN  /\ Trim(seg.part) # <<>>
        /\ seg.kind = "Prose" => Trim(seg.payload) # <<>>

\* C34 witness: a reply with a whitespace-only span that was dropped and a
\* diagram fence with a blank body that was kept, its chart empty
C34_Witness ==
  \E i \in 1..Len(messages) :
    /\ messages[i].role = MODEL
    /\ \E j \in 1..Len(Split(messages[i].content)) :
         /\ Split(messages[i].content)[j] # <<>>
         /\ IsBlank(Split(messages[i].content)[j])
    /\ \E k \in 1..Len(rendered[i]) :
         rendered[i][k].kind = "Diagram" /\ rendered[i][k].payload = <<>>

----------------------------------------------------------------------------
(* One reply in flight                                                     *)

\* C35: while a call of handleSendMessage is suspended at generateContentStream
\* or inside its loop, the loading flag is set and the composer takes no
\* submission, whatever the prompt and the attachment.
C35_OneReplyInFlight ==
  pc # "idle" =>
    /\ isLoading
    /\ ~ENABLED (\E p \in Prompts, a \in Attachments : TypeAndSubmit(p, a, 0))

\* C35 witness: the first reply is streaming, a delta has arrived and the
\* bound on submissions is not reached
C35_Witness ==
  /\ pc = "streaming" /\ chunks # <<>>
  /\ turns = 1 /\ turns < MaxTurns
  /\ isLoading

----------------------------------------------------------------------------
(* SpecLoadingFair: submissions with and without an attachment that fails  *)
(* to decode, and a transport that settles: the promise of                 *)
(* generateContentStream resolves or rejects, and the stream yields its    *)
(* next delta, ends or throws                                               *)

TransportSettles ==
  \/ StreamOpens(0)
  \/ StreamChunk(<<"a">>, 0)
  \/ StreamEnds
  \/ TransportFails("net", 0)

NextLoading ==
  \/ \E a \in {None, Some([dataUrl |-> EmptyFileDataUrl])} :
       TypeAndSubmit(<<"a">>, a, 0)
  \/ TransportSettles
  \/ \E l \in Languages : SetLanguage(l)
  \/ ScrollTimerFire

SpecLoadingFair == Init /\ [][NextLoading]_vars /\ WF_vars(TransportSettles)

\* C36: whenever the loading flag is set, it is later cleared with no call of
\* handleSendMessage suspended: the stream has ended or failed.  A submission
\* whose attachment fails to decode never leaves the flag set.
C36_LoadingEnds == isLoading ~> (~isLoading /\ pc = "idle")

\* C36 witness: the second submission has failed and the flag is clear
C36_Witness ==
  /\ turns = 2 /\ pc = "idle" /\ ~isLoading
  /\ error # None
  /\ Last(messages) = ErrorReply("net")

----------------------------------------------------------------------------
(* Segmentation of a text and of its extensions                            *)

\* the reply text after the first j deltas
TextAfter(j) == Flatten(SubSeq(chunks, 1, j))

\* C37: for every text s that the reply was after some of its deltas and the
\* reply text now, an extension of s, every segment of s but the last is a
\* segment of the text now, at the same position, with the same kind and
\* payload.
C37_StableUnderAppending ==
  LET new == FormattedContent(TextAfter(Len(chunks)))
  IN  \A j \in 0..(Len(chunks) - 1) :
        LET old == FormattedContent(TextAfter(j))
        IN  \A k \in 1..(Len(old) - 1) : k <= Len(new) /\ new[k] = old[k]

\* C37 witness: the text before the last delta had two segments or more, and
\* the last delta changed the last of them
C37_Witness ==
  /\ Len(chunks) >= 2
  /\ LET old == FormattedContent(TextAfter(Len(chunks) - 1))
         new == FormattedContent(TextAfter(Len(chunks)))
     IN  /\ Len(old) >= 2
         /\ Len(new) >= Len(old)
         /\ new[Len(old)] # old[Len(old)]

----------------------------------------------------------------------------
(* The scroll intent while a reply is in flight                            *)

\* C38, as the claim states it: from a submission until its reply ends,
\* while the user has not scrolled, shouldAutoScroll is set.
C38_IntentKeptWhileStreaming ==
  (pc # "idle" /\ manual = "none") => shouldAutoScroll

----------------------------------------------------------------------------
(* Reads of the composer that complete late                                *)

\* C39, as the claim states it: the composer never holds a file and a folder
\* at once, and a read that completes while a reply is in flight, hence a
\* read of a selection made before the submission, leaves the pending
\* attachment state as it is.
C39_OnlyLatestSelection ==
  [][/\ fileData' = None \/ folderData' = None
     /\ (/\ isLoading
         /\ \/ \E u \in DataUrls : ReaderLoads(u)
            \/ \E files \in Folders : FolderLoads(files)) =>
          /\ fileData' = fileData
          /\ folderData' = folderData]_vars

====
